---- MODULE Spec2Model ----
(***************************************************************************)
(* todo-mvc-bench: the polling wait primitives of lib/src/lib.rs and the   *)
(* benchmark runner of bin/src/bench_runner.rs.                            *)
(*                                                                         *)
(* Time is performance.now() in milliseconds; the clock moves in steps of  *)
(* Quantum, up to MaxClock for a lone call of a wait primitive and up to   *)
(* MaxRunClock under the runner.  An Option is a sequence of length 0      *)
(* (None) or 1 (Some).                                                     *)
(***************************************************************************)
EXTENDS Integers, Sequences, FiniteSets, TLC

\* ---------------------------------------------------------------- bounds
MaxClock == 15000
MaxRunClock == 5000
MaxRuns == 1
MaxPending == 1
MaxEvents == 2
MaxPolls == 2
MaxCards == 3
MaxClicks == 2
MaxTargets == 2
MaxAvgTimes == 2
MaxDispatches == 6

\* ------------------------------------------------------ program constants
MsPerSecond == 1000
TodoCount == 100
FindInputTimeout == 5
FocusTimeout == 5
CreateTimeout == 1
CompleteTimeout == 5
DestroyConfirmTimeout == 1
DeleteTimeout == 5
LogicCapacity == 1

Quantum == 5 * MsPerSecond
ElapsedSlots == 0..(MaxClock \div Quantum)
TimeoutChoices == {0, CreateTimeout, FindInputTimeout}
WaitKinds == {"wait_for", "wait_while", "wait_until_next_for", "FoundFuture"}

None == << >>
Some(x) == << x >>
IsSome(o) == Len(o) = 1
Unit == "unit"

NoOutcome == [kind |-> "None", found |-> None, elapsed |-> 0]

\* history of the counts a step reads: the latest and the one before it,
\* whether they never decreased, and the largest
FirstObservation(n) == [prev |-> n, last |-> n, mono |-> TRUE, top |-> n]
Observe(o, n) ==
    [prev |-> o.last, last |-> n, mono |-> o.mono /\ n >= o.last,
     top |-> IF n > o.top THEN n ELSE o.top]

VARIABLES
    now,              \* performance.now()
    pc,               \* position of the code that called the wait primitive
    \* ---- one call of a wait primitive (lib/src/lib.rs)
    kind,             \* which primitive is running
    wstate,           \* NotStarted, Polling, Ready, TimedOut
    timeout_seconds,
    start,
    fvals,            \* standalone call: what the polling function yields at each elapsed slot
    rx_done,          \* oneshot receiver of the value found
    rx_tick,          \* oneshot receiver of the "nothing yet" tick
    scheduled,        \* set_immediate callbacks not yet run
    polls,            \* invocations of the polling function in this call
    lastPoll,         \* what the latest invocation returned, with its number
    returns,          \* outcomes this call has produced
    outcome,          \* Result<Found<T>, f64> of the call
    stream,           \* events buffered in the stream given to wait_until_next_for
    emitted,          \* events the source has produced so far
    timer,            \* the wait_approx future
    woken,            \* the waker of the FoundFuture has been called
    uncaught,         \* panics that left a callback of the event loop
    dispatched,       \* the call of dispatch_events in progress and the events it sent
    gone,             \* reply channels whose receiver the caller has dropped
    \* ---- the benchmark runner (bin/src/bench_runner.rs)
    rx_logic,         \* Run requests queued for bench_runner_logic
    runs,             \* Run requests issued so far
    framework,        \* the FrameworkCard of the run in progress
    reply,            \* the reply channel of the run in progress
    benchmark,        \* the Benchmark being built by bench_runner_logic
    steps,            \* the local step vector of execute_bench
    step,             \* the BenchmarkStep under construction
    bench_start,
    res,              \* Result of execute_bench: None, Ok(steps) or Err(msg)
    completed,        \* steps execute_bench had pushed when it returned
    created,
    len,
    deletions_remaining,
    viewLog,          \* ViewMsg broadcasts of the run in progress, in order
    delivered,        \* Benchmarks broadcast on reply channels, not yet received
    \* ---- the target page inside the iframe
    loads,            \* buffered "load" events of the iframe
    listening,        \* the load listener is registered
    willLoad,         \* whether the page will ever finish loading
    todoInput,        \* which of "#new-todo" and ".new-todo" match an element
    todoCount,        \* number of todo items (one .toggle and one .destroy each)
    pendingAdd,       \* items the page will still add asynchronously
    pendingRemove,    \* items the page will still remove asynchronously
    toggleClicks,
    destroyClicks,
    triggers,         \* creation triggers dispatched in this run
    observed,         \* history of the item counts the current step has read
    \* ---- the step-driven App (bin/src/lib.rs)
    app,              \* the fields of App other than cards
    cards,            \* the framework cards: name, is_enabled, state
    futures,          \* messages given to send_async and not yet delivered, by kind
    view,             \* what the Out messages have set in the view
    clicks,           \* clicks on the Run and Step buttons so far
    \* ---- the Suite Scheduler (spec 4.4)
    suite             \* its queue, aggregate list, phase and cancellation flag

engineVars == << kind, wstate, timeout_seconds, start, fvals, rx_done, rx_tick,
                 scheduled, polls, lastPoll, returns, outcome, stream, emitted, timer,
                 woken >>
runnerVars == << rx_logic, runs, framework, reply, benchmark, steps, step, bench_start,
                 res, completed, created, len, deletions_remaining, viewLog, delivered >>
targetVars == << loads, listening, willLoad, todoInput, todoCount, pendingAdd,
                 pendingRemove, toggleClicks, destroyClicks, triggers, observed >>
schedulerVars == << app, cards, futures, view, clicks, suite >>
benchVars == << now, pc, engineVars, runnerVars, targetVars, uncaught, dispatched,
               gone >>
vars == << benchVars, schedulerVars >>

\* ------------------------------------------------------------ the clock
\* (now - start) / 1000.0 >= timeout_seconds, on milliseconds
ElapsedAtLeast(elapsed_ms, seconds) == elapsed_ms >= seconds * MsPerSecond

\* select!: any branch that is ready may be taken
SelectReady(events, t) ==
    (IF events # << >> THEN {"stream"} ELSE {}) \cup
    (IF t.st = "fired" THEN {"timeout"} ELSE {})

\* the task suspended in the select! of wait_until_next_for has been woken
TaskWoken ==
    /\ kind = "wait_until_next_for"
    /\ wstate = "Polling"
    /\ SelectReady(stream, timer) # {}

\* an event loop that runs further macrotasks before it polls a woken task
MacrotaskMayRunAlways == TRUE

\* A woken task is polled in the microtask checkpoint of the macrotask that
\* woke it: no event, timer or later clock reading comes in between.
MacrotaskMayRun == ~TaskWoken

\* macrotasks of the page run only while the runner task is suspended and
\* before the callback it waits for
PageMayRun ==
    \/ pc = "load_step"
    \/ /\ pc \in {"find_todo_input", "create_todos", "complete_todos",
                  "delete_confirm", "delete_todos"}
       /\ wstate = "Polling"
       /\ scheduled > 0
    \/ pc = "wait_todo_focus" /\ wstate = "Polling"

\* The event loop is single threaded: under the runner, time is observed to
\* pass only while its task is suspended.
\* Time is followed up to MaxRunClock, and
\* beyond it for as long as an armed wait_approx timer has yet to elapse.
ClockTick ==
    /\ MacrotaskMayRun
    /\ IF pc = "wait_call"
       THEN now + Quantum <= MaxClock
       ELSE /\ PageMayRun
            /\ \/ now + Quantum <= MaxRunClock
               \/ timer.st = "armed" /\ ~ElapsedAtLeast(now - start, timeout_seconds)
    /\ now' = now + Quantum
    /\ UNCHANGED << pc, engineVars, runnerVars, targetVars >>
    /\ UNCHANGED << schedulerVars, uncaught, dispatched, gone >>

\* -------------------------------------------------- oneshot channels
Pending == [st |-> "pending", val |-> None]
Canceled == [st |-> "canceled", val |-> None]
Sent(v) == [st |-> "sent", val |-> Some(v)]

Ready(found, elapsed) == [kind |-> "Ready", found |-> Some(found), elapsed |-> elapsed]
TimedOut(elapsed) == [kind |-> "TimedOut", found |-> None, elapsed |-> elapsed]

ElapsedSlot ==
    LET n == (now - start) \div Quantum
    IN  IF n \in ElapsedSlots THEN n ELSE MaxClock \div Quantum

\* a lookup that tries the class selector first
FallbackOrPrimary(matches) ==
    IF ".new-todo" \in matches THEN Some(".new-todo")
    ELSE IF "#new-todo" \in matches THEN Some("#new-todo")
    ELSE None

\* find_todo_input lines 120-134: "#new-todo" first, ".new-todo" otherwise
PrimaryOrFallback(matches) ==
    IF "#new-todo" \in matches THEN Some("#new-todo")
    ELSE IF ".new-todo" \in matches THEN Some(".new-todo")
    ELSE None

\* a confirmation that accepts any growth
CreatedConfirmedAtLeast(before, new_len) == before + 1 <= new_len

CreatedConfirmed(before, new_len) == before + 1 = new_len

\* a wait that ends as soon as no more than the expected number is left
StillDeletingAbove(length, remaining) == length > remaining

StillDeleting(length, remaining) == length # remaining

\* a poll that hands over whatever toggles it finds
AnyToggles(length) == Some(length)

\* complete_todos lines 244-266: the toggles, when there are exactly 100
AllToggles(length) == IF length # TodoCount THEN None ELSE Some(length)

\* wait_while's adapter around a boolean polling function
WhileAdapter(b) == IF b THEN None ELSE Some(Unit)

\* The polling function handed to the running call, evaluated now.
PollingFunction ==
    CASE pc = "wait_call" /\ kind = "wait_for" ->
            IF fvals[ElapsedSlot] THEN Some(polls + 1) ELSE None
      [] pc = "wait_call" /\ kind = "wait_while" ->
            WhileAdapter(fvals[ElapsedSlot])
      [] pc = "find_todo_input" -> PrimaryOrFallback(todoInput)
      [] pc = "create_todos" ->
            IF CreatedConfirmed(len, todoCount) THEN Some(Unit) ELSE None
      [] pc = "complete_todos" ->
            AllToggles(todoCount)
      [] pc = "delete_confirm" ->
            Some(IF todoCount = TodoCount THEN Some(Unit) ELSE None)
      [] pc = "delete_todos" ->
            WhileAdapter(StillDeleting(todoCount, deletions_remaining))
      [] OTHER -> None

\* a callback that sends what an earlier invocation would have numbered
CallbackChannelsEarlier(r) ==
    IF IsSome(r)
    THEN [done |-> Sent(polls), tick |-> Canceled]
    ELSE [done |-> Canceled, tick |-> Sent(Unit)]

\* a callback that signals nothing when nothing was found
CallbackChannelsSilent(r) ==
    IF IsSome(r)
    THEN [done |-> Sent(r[1]), tick |-> Canceled]
    ELSE [done |-> Pending, tick |-> Pending]

\* The set_immediate closure owns both senders and is consumed by its one
\* call: the sender it does not use is dropped when it returns, which cancels
\* that sender's receiver.
CallbackChannels(r) ==
    IF IsSome(r)
    THEN [done |-> Sent(r[1]), tick |-> Canceled]
    ELSE [done |-> Canceled, tick |-> Sent(Unit)]

\* a select that looks at the clock before it looks at the channels
SelectClockFirst(done, tick, elapsed, timeout) ==
    IF ElapsedAtLeast(elapsed, timeout)
    THEN [next |-> "return", outcome |-> TimedOut(elapsed)]
    ELSE IF done.st = "sent"
         THEN [next |-> "return", outcome |-> Ready(done.val[1], elapsed)]
         ELSE IF done.st = "canceled" /\ tick.st = "canceled"
              THEN [next |-> "return", outcome |-> TimedOut(elapsed)]
              ELSE [next |-> "loop", outcome |-> NoOutcome]

\* select_biased!: rx_done is polled first, rx_tick only if rx_done is pending.
SelectBiased(done, tick, elapsed, timeout) ==
    IF done.st # "pending"
    THEN IF done.st = "sent"
         THEN [next |-> "return", outcome |-> Ready(done.val[1], elapsed)]
         ELSE [next |-> "return", outcome |-> TimedOut(elapsed)]
    ELSE IF tick.st = "canceled"
         THEN [next |-> "return", outcome |-> TimedOut(elapsed)]
         ELSE IF ElapsedAtLeast(elapsed, timeout)
              THEN [next |-> "return", outcome |-> TimedOut(elapsed)]
              ELSE [next |-> "loop", outcome |-> NoOutcome]

\* a loop that schedules its next callback before it looks at the result
RescheduledAlways(sel) == 1

\* callbacks a pass of the loop leaves scheduled
Rescheduled(sel) == IF sel.next = "loop" THEN 1 ELSE 0

\* a loop that hands its closure to set_immediate twice
wait_for_begin_twice(k, t) ==
    /\ kind' = k
    /\ timeout_seconds' = t
    /\ start' = now
    /\ rx_done' = Pending
    /\ rx_tick' = Pending
    /\ scheduled' = scheduled + 2
    /\ polls' = 0
    /\ lastPoll' = None
    /\ returns' = 0
    /\ outcome' = NoOutcome
    /\ wstate' = "Polling"
    /\ UNCHANGED << fvals, stream, emitted, timer, woken >>

\* wait_for up to its first suspension: start is taken, one callback scheduled
wait_for_begin(k, t) ==
    /\ kind' = k
    /\ timeout_seconds' = t
    /\ start' = now
    /\ rx_done' = Pending
    /\ rx_tick' = Pending
    /\ scheduled' = scheduled + 1
    /\ polls' = 0
    /\ lastPoll' = None
    /\ returns' = 0
    /\ outcome' = NoOutcome
    /\ wstate' = "Polling"
    /\ UNCHANGED << fvals, stream, emitted, timer, woken >>

WaitForCall ==
    /\ pc = "wait_call"
    /\ wstate = "NotStarted"
    /\ kind \in {"wait_for", "wait_while"}
    /\ wait_for_begin(kind, timeout_seconds)
    /\ UNCHANGED << now, pc, runnerVars, targetVars >>
    /\ UNCHANGED << schedulerVars, uncaught, dispatched, gone >>

\* steps whose polling function reads the number of todo items
CountingSteps == {"create_todos", "complete_todos", "delete_confirm", "delete_todos"}

\* the scheduler tick: the set_immediate callback runs the polling function
ImmediateCallback ==
    /\ scheduled > 0
    /\ kind \in {"wait_for", "wait_while"}
    /\ LET r == PollingFunction
           ch == CallbackChannels(r)
       IN  /\ polls' = polls + 1
           /\ lastPoll' = r
           /\ rx_done' = ch.done
           /\ rx_tick' = ch.tick
    /\ scheduled' = scheduled - 1
    /\ observed' = IF pc \in CountingSteps THEN Observe(observed, todoCount) ELSE observed
    /\ UNCHANGED << now, pc, kind, wstate, timeout_seconds, start, fvals, returns,
                    outcome, stream, emitted, timer, woken, runnerVars, loads, listening,
                    willLoad, todoInput, todoCount, pendingAdd, pendingRemove,
                    toggleClicks, destroyClicks, triggers >>
    /\ UNCHANGED << schedulerVars, uncaught, dispatched, gone >>

\* The polling function panics inside the set_immediate callback.  The panic
\* leaves the callback towards the event loop, not towards the task that
\* awaits the channels.  A build that aborts on panic leaks the closure with
\* both senders, a build that unwinds drops them.
PredicatePanics ==
    /\ scheduled > 0
    /\ pc = "wait_call"
    /\ kind \in {"wait_for", "wait_while"}
    /\ \E unwinds \in BOOLEAN :
          /\ rx_done' = IF unwinds THEN Canceled ELSE rx_done
          /\ rx_tick' = IF unwinds THEN Canceled ELSE rx_tick
    /\ polls' = polls + 1
    /\ lastPoll' = None
    /\ scheduled' = scheduled - 1
    /\ uncaught' = uncaught + 1
    /\ UNCHANGED << now, pc, kind, wstate, timeout_seconds, start, fvals, returns,
                    outcome, stream, emitted, timer, woken, runnerVars, targetVars,
                    schedulerVars, dispatched, gone >>

\* the task is woken and runs the select of lines 41-71
WaitForResume ==
    /\ wstate = "Polling"
    /\ kind \in {"wait_for", "wait_while"}
    /\ rx_done.st # "pending" \/ rx_tick.st # "pending"
    /\ LET sel == SelectBiased(rx_done, rx_tick, now - start, timeout_seconds)
       IN  /\ scheduled' = scheduled + Rescheduled(sel)
           /\ IF sel.next = "return"
              THEN /\ wstate' = sel.outcome.kind
                   /\ outcome' = sel.outcome
                   /\ returns' = returns + 1
                   /\ UNCHANGED << rx_done, rx_tick >>
              ELSE /\ rx_done' = Pending
                   /\ rx_tick' = Pending
                   /\ UNCHANGED << wstate, outcome, returns >>
    /\ UNCHANGED << now, pc, kind, timeout_seconds, start, fvals, polls, lastPoll,
                    stream, emitted, timer, woken, runnerVars, targetVars >>
    /\ UNCHANGED << schedulerVars, uncaught, dispatched, gone >>

\* ------------------------------------------------ wait_until_next_for
Unset == [st |-> "unset", millis |-> 0]
Armed == [st |-> "armed", millis |-> 0]
Fired(ms) == [st |-> "fired", millis |-> ms]

wait_until_next_for_begin(t) ==
    /\ kind' = "wait_until_next_for"
    /\ timeout_seconds' = t
    /\ start' = now
    /\ timer' = Armed
    /\ polls' = 0
    /\ lastPoll' = None
    /\ returns' = 0
    /\ outcome' = NoOutcome
    /\ wstate' = "Polling"
    /\ UNCHANGED << fvals, rx_done, rx_tick, scheduled, stream, emitted, woken >>

WaitUntilNextForCall ==
    /\ pc = "wait_call"
    /\ wstate = "NotStarted"
    /\ kind = "wait_until_next_for"
    /\ wait_until_next_for_begin(timeout_seconds)
    /\ UNCHANGED << now, pc, runnerVars, targetVars >>
    /\ UNCHANGED << schedulerVars, uncaught, dispatched, gone >>

\* the event source produces an event (a focus event in the runner)
StreamEvent ==
    /\ pc \in {"wait_call", "wait_todo_focus"}
    /\ kind = "wait_until_next_for"
    /\ emitted < MaxEvents
    /\ MacrotaskMayRun
    /\ emitted' = emitted + 1
    /\ stream' = Append(stream, emitted + 1)
    /\ UNCHANGED << now, pc, kind, wstate, timeout_seconds, start, fvals, rx_done,
                    rx_tick, scheduled, polls, lastPoll, returns, outcome, timer,
                    woken, runnerVars, targetVars >>
    /\ UNCHANGED << schedulerVars, uncaught, dispatched, gone >>

\* wait_approx resolves once the timeout has passed, with the time it slept
TimerFire ==
    /\ timer.st = "armed"
    /\ MacrotaskMayRun
    /\ ElapsedAtLeast(now - start, timeout_seconds)
    /\ timer' = Fired(now - start)
    /\ UNCHANGED << now, pc, kind, wstate, timeout_seconds, start, fvals, rx_done,
                    rx_tick, scheduled, polls, lastPoll, returns, outcome, stream,
                    emitted, woken, runnerVars, targetVars >>
    /\ UNCHANGED << schedulerVars, uncaught, dispatched, gone >>

WaitUntilNextForResume ==
    /\ wstate = "Polling"
    /\ kind = "wait_until_next_for"
    /\ \E branch \in SelectReady(stream, timer) :
          IF branch = "stream"
          THEN /\ outcome' = Ready(Head(stream), now - start)
               /\ stream' = Tail(stream)
               /\ wstate' = "Ready"
          ELSE /\ outcome' = TimedOut(timer.millis)
               /\ stream' = stream
               /\ wstate' = "TimedOut"
    /\ timer' = Unset
    /\ returns' = returns + 1
    /\ UNCHANGED << now, pc, kind, timeout_seconds, start, fvals, rx_done, rx_tick,
                    scheduled, polls, lastPoll, emitted, woken, runnerVars, targetVars >>
    /\ UNCHANGED << schedulerVars, uncaught, dispatched, gone >>

\* ------------------------------------------- FoundFuture (lib/src/find.rs)
\* elapsed.round() as u32: the clock of the model reads whole milliseconds
RoundMillis(elapsed) == elapsed

\* Poll::Ready(None): the future reports no elapsed time when it gives up
NotFound == [kind |-> "TimedOut", found |-> None, elapsed |-> None]

\* FoundFuture keeps polling while nothing is found and the rounded elapsed
\* time has not passed its timeout, which is given in milliseconds
KeepsPolling(may_stuff, elapsed_millis, timeout_millis) ==
    ~IsSome(may_stuff) /\ elapsed_millis <= timeout_millis

\* FoundFuture::poll, lines 49-109: the executor polls the future when it is
\* first awaited and whenever its waker has been called.  poll_count is only
\* compared with 0 (line 52), so polls stops counting at MaxPolls.
FoundFuturePoll ==
    /\ pc = "wait_call"
    /\ kind = "FoundFuture"
    /\ wstate = "NotStarted" \/ (wstate = "Polling" /\ woken)
    /\ LET began == IF polls = 0 THEN now ELSE start
           slot == IF (now - began) \div Quantum \in ElapsedSlots
                   THEN (now - began) \div Quantum
                   ELSE MaxClock \div Quantum
           may_stuff == IF fvals[slot]
                        THEN Some(IF polls < MaxPolls THEN polls + 1 ELSE polls)
                        ELSE None
           elapsed == now - began
       IN  /\ start' = began
           /\ polls' = IF polls < MaxPolls THEN polls + 1 ELSE polls
           /\ lastPoll' = may_stuff
           /\ woken' = FALSE
           /\ IF KeepsPolling(may_stuff, RoundMillis(elapsed),
                              timeout_seconds * MsPerSecond)
              THEN /\ scheduled' = scheduled + 1
                   /\ wstate' = "Polling"
                   /\ UNCHANGED << outcome, returns >>
              ELSE /\ outcome' = IF IsSome(may_stuff)
                                 THEN Ready(may_stuff[1], elapsed)
                                 ELSE NotFound
                   /\ wstate' = IF IsSome(may_stuff) THEN "Ready" ELSE "TimedOut"
                   /\ returns' = returns + 1
                   /\ UNCHANGED scheduled
    /\ UNCHANGED << now, pc, kind, timeout_seconds, fvals, rx_done, rx_tick, stream,
                    emitted, timer, runnerVars, targetVars >>
    /\ UNCHANGED << schedulerVars, uncaught, dispatched, gone >>

\* the timeout(0) callback of lines 78-91 takes the stored waker and wakes it
FoundFutureWake ==
    /\ kind = "FoundFuture"
    /\ scheduled > 0
    /\ scheduled' = scheduled - 1
    /\ woken' = TRUE
    /\ UNCHANGED << now, pc, kind, wstate, timeout_seconds, start, fvals, rx_done,
                    rx_tick, polls, lastPoll, returns, outcome, stream, emitted,
                    timer, runnerVars, targetVars >>
    /\ UNCHANGED << schedulerVars, uncaught, dispatched, gone >>

\* ------------------------------------------- one call, standalone
NoFramework == [name |-> "none", language |-> None, wait_for_input_focus |-> FALSE]
NewBenchmark == [name |-> "unnamed", steps |-> << >>, failed_message |-> None,
                 language |-> None]
NoStep == [name |-> "none", start |-> 0, end |-> None]

RunnerIdle ==
    /\ rx_logic = << >>
    /\ runs = 0
    /\ framework = NoFramework
    /\ reply = 0
    /\ benchmark = NewBenchmark
    /\ steps = << >>
    /\ step = NoStep
    /\ bench_start = 0
    /\ res = None
    /\ completed = 0
    /\ created = 0
    /\ len = 0
    /\ deletions_remaining = 0
    /\ viewLog = << >>
    /\ delivered = {}

TargetBlank ==
    /\ loads = 0
    /\ listening = FALSE
    /\ willLoad = TRUE
    /\ todoInput = {}
    /\ todoCount = 0
    /\ pendingAdd = 0
    /\ pendingRemove = 0
    /\ toggleClicks = 0
    /\ destroyClicks = 0
    /\ triggers = 0
    /\ observed = FirstObservation(0)

\* --------------------- CreateTodoMethod (bin/src/framework_card.rs)
CreateTodoMethods == {"Change", "InputAndKeypress", "InputAndKeyup", "InputAndKeydown",
                      "Submit"}

\* the closure event: an Event that bubbles and is cancelable, dispatched from
DomEvent(name, from) ==
    [interface |-> "Event", name |-> name, from |-> from, key |-> None]

\* the closure keyboard_enter_event: which and key_code 13, key "Enter"
KeyboardEnterEvent(name, from) ==
    [interface |-> "KeyboardEvent", name |-> name, from |-> from, key |-> Some("Enter")]

\* a Submit that sends submit from the input when there is no form
dispatch_events_unguarded(method, has_form) ==
    CASE method = "Change" -> << DomEvent("change", "input") >>
      [] method = "InputAndKeypress" ->
            << DomEvent("input", "input"), KeyboardEnterEvent("keypress", "input") >>
      [] method = "InputAndKeyup" ->
            << DomEvent("input", "input"), KeyboardEnterEvent("keyup", "input") >>
      [] method = "InputAndKeydown" ->
            << DomEvent("input", "input"), KeyboardEnterEvent("keydown", "input") >>
      [] method = "Submit" ->
            << DomEvent("input", "input"),
               DomEvent("submit", IF has_form THEN "form" ELSE "input") >>

\* CreateTodoMethod::dispatch_events, lines 47-69: the events of one call, in
\* the order of their dispatch_event
dispatch_events(method, has_form) ==
    CASE method = "Change" -> << DomEvent("change", "input") >>
      [] method = "InputAndKeypress" ->
            << DomEvent("input", "input"), KeyboardEnterEvent("keypress", "input") >>
      [] method = "InputAndKeyup" ->
            << DomEvent("input", "input"), KeyboardEnterEvent("keyup", "input") >>
      [] method = "InputAndKeydown" ->
            << DomEvent("input", "input"), KeyboardEnterEvent("keydown", "input") >>
      [] method = "Submit" ->
            << DomEvent("input", "input") >> \o
            (IF has_form THEN << DomEvent("submit", "form") >> ELSE << >>)

\* no call of dispatch_events has been made
NoDispatch == [method |-> "none", has_form |-> FALSE, log |-> << >>, calls |-> 0,
               returned |-> TRUE]

\* ------------------------------------------ the App of bin/src/lib.rs
\* messages handed to send_async: In::NextStep, In::CompleteStep and the
\* futures of the four steps that wait on the page
FutureKinds == {"NextStep", "CompleteStep", "AwaitTodoInput", "EnterTodos",
                "CompleteTodos", "DeleteTodos"}

\* Benchmark::new() with the name of current_benchmark.0
NewCurrentBenchmark == [name |-> None, failed_message |-> None]

\* App::new, lines 184-194
NewApp ==
    [is_stepping |-> FALSE, steps |-> << >>, iframe_document |-> None,
     current_benchmark |-> NewCurrentBenchmark, may_current_step |-> None,
     benchmarks |-> << >>, may_todo_input |-> None, framework_index |-> None,
     panicked |-> None]

\* the view as built: Step enabled, the iframe about to fire its first load
NewView == [step_disabled |-> FALSE, iframe_src |-> None, loading |-> TRUE,
            next_step |-> "..."]

CardName(i) == i

\* FrameworkCard::new, state Ready
NewCard(i, enabled) == [name |-> CardName(i), is_enabled |-> enabled, state |-> << "Ready" >>]

\* the Suite Scheduler at rest, with nothing run yet
NewSuite == [phase |-> "idle", avg_times |-> 0, queue |-> << >>, aggregate |-> << >>,
             cancel |-> FALSE, current |-> 0, failing |-> {}, ended |-> "never"]

AppIdle ==
    /\ suite = NewSuite
    /\ app = NewApp
    /\ cards = << >>
    /\ futures = [k \in FutureKinds |-> 0]
    /\ view = NewView
    /\ clicks = 0

EngineIdle ==
    /\ wstate = "NotStarted"
    /\ start = 0
    /\ rx_done = Pending
    /\ rx_tick = Pending
    /\ scheduled = 0
    /\ polls = 0
    /\ lastPoll = None
    /\ returns = 0
    /\ outcome = NoOutcome
    /\ stream = << >>
    /\ emitted = 0
    /\ timer = Unset
    /\ woken = FALSE
    /\ uncaught = 0
    /\ dispatched = NoDispatch
    /\ gone = {}

WaitInit ==
    /\ now = 0
    /\ pc = "wait_call"
    /\ kind \in WaitKinds
    /\ timeout_seconds \in TimeoutChoices
    /\ fvals \in [ElapsedSlots -> BOOLEAN]
    /\ EngineIdle
    /\ RunnerIdle
    /\ TargetBlank
    /\ AppIdle

WaitNext ==
    \/ ClockTick
    \/ WaitForCall
    \/ ImmediateCallback
    \/ WaitForResume
    \/ WaitUntilNextForCall
    \/ StreamEvent
    \/ TimerFire
    \/ WaitUntilNextForResume
    \/ FoundFuturePoll
    \/ FoundFutureWake

WaitSpec == WaitInit /\ [][WaitNext]_vars

\* -------------------------------------- calls of dispatch_events alone
\* create_todos line 207: dispatch_events is called with the method of the
\* card; input.form() is what the page has around its input
DispatchEventsCall ==
    /\ pc = "dispatch"
    /\ dispatched.returned
    /\ dispatched.calls < MaxDispatches
    /\ \E method \in CreateTodoMethods, has_form \in BOOLEAN :
          dispatched' = [method |-> method, has_form |-> has_form, log |-> << >>,
                         calls |-> dispatched.calls + 1, returned |-> FALSE]
    /\ UNCHANGED << now, pc, engineVars, runnerVars, targetVars, uncaught, gone,
                    schedulerVars >>

\* one from.dispatch_event(&event) of the call
DispatchEvent ==
    /\ pc = "dispatch"
    /\ ~dispatched.returned
    /\ LET events == dispatch_events(dispatched.method, dispatched.has_form)
       IN  /\ Len(dispatched.log) < Len(events)
           /\ dispatched' = [dispatched EXCEPT !.log = Append(@, events[Len(@) + 1])]
    /\ UNCHANGED << now, pc, engineVars, runnerVars, targetVars, uncaught, gone,
                    schedulerVars >>

\* the match has run through its arm
DispatchEventsReturn ==
    /\ pc = "dispatch"
    /\ ~dispatched.returned
    /\ Len(dispatched.log) = Len(dispatch_events(dispatched.method, dispatched.has_form))
    /\ dispatched' = [dispatched EXCEPT !.returned = TRUE]
    /\ UNCHANGED << now, pc, engineVars, runnerVars, targetVars, uncaught, gone,
                    schedulerVars >>

DispatchInit ==
    /\ now = 0
    /\ pc = "dispatch"
    /\ kind = "wait_for"
    /\ timeout_seconds = 0
    /\ fvals = [i \in ElapsedSlots |-> FALSE]
    /\ EngineIdle
    /\ RunnerIdle
    /\ TargetBlank
    /\ AppIdle

DispatchNext ==
    \/ DispatchEventsCall
    \/ DispatchEvent
    \/ DispatchEventsReturn

DispatchSpec == DispatchInit /\ [][DispatchNext]_vars

\* ------------------------------- one call whose polling function may panic
PanicNext == WaitNext \/ PredicatePanics

PanicSpec == WaitInit /\ [][PanicNext]_vars

\* ------------------------------------------- one FoundFuture, awaited
\* timeouts given to FoundFuture::new, in seconds of the model's clock
FoundTimeouts == {CreateTimeout, FindInputTimeout, 2 * FindInputTimeout}

FoundInit ==
    /\ now = 0
    /\ pc = "wait_call"
    /\ kind = "FoundFuture"
    /\ timeout_seconds \in FoundTimeouts
    /\ fvals \in [ElapsedSlots -> BOOLEAN]
    /\ EngineIdle
    /\ RunnerIdle
    /\ TargetBlank
    /\ AppIdle

FoundNext ==
    \/ ClockTick
    \/ FoundFuturePoll
    \/ FoundFutureWake

FoundSpec == FoundInit /\ [][FoundNext]_vars

\* ------------------------------------------------ the benchmark runner
Frameworks ==
    { [name |-> "plain", language |-> Some("rust"), wait_for_input_focus |-> FALSE],
      [name |-> "focus", language |-> None, wait_for_input_focus |-> TRUE] }

Selectors == {"#new-todo", ".new-todo"}

perf_now == now - bench_start

NewStep(n) == [name |-> n, start |-> perf_now, end |-> None]
\* a step pushed without its end having been taken
EndedUnset(st) == st

Ended(st) == [st EXCEPT !.end = Some(perf_now)]

Ok(v) == << "Ok", v >>
Err(msg) == << "Err", msg >>

\* the future of the finished call is dropped
EngineDropped ==
    /\ kind' = "wait_for"
    /\ wstate' = "NotStarted"
    /\ timeout_seconds' = 0
    /\ start' = 0
    /\ rx_done' = Pending
    /\ rx_tick' = Pending
    /\ polls' = 0
    /\ lastPoll' = None
    /\ returns' = 0
    /\ outcome' = NoOutcome
    /\ stream' = << >>
    /\ emitted' = 0
    /\ timer' = Unset
    /\ UNCHANGED << fvals, scheduled, woken >>

PageUntouched ==
    UNCHANGED << todoCount, pendingAdd, pendingRemove, toggleClicks, destroyClicks,
                 triggers, observed >>

\* the locals of execute_bench and of its step functions are dropped
LocalsDropped ==
    /\ steps' = << >>
    /\ step' = NoStep
    /\ created' = 0
    /\ len' = 0
    /\ deletions_remaining' = 0

\* a failure after which the wait that failed is started over
FailAndRetry(stepsNow, msg) ==
    /\ res' = Err(msg)
    /\ completed' = Len(stepsNow)
    /\ pc' = "bench_done"
    /\ LocalsDropped
    /\ wait_for_begin(kind, timeout_seconds)
    /\ PageUntouched

\* the ? operator: execute_bench returns the error; the steps it had pushed
\* are dropped with its other locals
Fail(stepsNow, msg) ==
    /\ res' = Err(msg)
    /\ completed' = Len(stepsNow)
    /\ pc' = "bench_done"
    /\ LocalsDropped
    /\ EngineDropped
    /\ PageUntouched

\* what the page does with one creation trigger: s items at once, d later
CreateResponses ==
    { r \in [s : 0..2, d : 0..MaxPending] :
        /\ r.s + r.d <= 2
        /\ pendingAdd + r.d <= MaxPending }

\* what the page does with one click on a destroy button
DestroyResponses ==
    { r \in [s : 0..2, d : 0..MaxPending] :
        /\ r.s + r.d <= 2
        /\ pendingRemove + r.d <= MaxPending
        /\ r.s + r.d + pendingRemove <= todoCount }

TooMany(length) == length > TodoCount

\* one pass of the while loop of create_todos, lines 186-227
create_iteration(stepsNow, stepNow, createdNow, seen) ==
    LET length == todoCount
    IN  IF TooMany(length)
        THEN Fail(stepsNow, << "created too many todos" >>)
        ELSE /\ \E r \in CreateResponses :
                   /\ todoCount' = todoCount + r.s
                   /\ pendingAdd' = pendingAdd + r.d
             /\ triggers' = triggers + 1
             /\ observed' = Observe(seen, length)
             /\ len' = length
             /\ created' = createdNow
             /\ steps' = stepsNow
             /\ step' = stepNow
             /\ wait_for_begin("wait_for", CreateTimeout)
             /\ pc' = "create_todos"
             /\ UNCHANGED << res, completed, deletions_remaining, pendingRemove, toggleClicks,
                             destroyClicks >>

\* a precondition that tolerates one leftover item
PreExistingSeveral(length) == length > 1

\* create_todos lines 169-177: the list must be empty before the first item
PreExisting(length) == length > 0

\* create_todos, lines 169-185
create_todos_begin(stepsNow) ==
    IF PreExisting(todoCount)
    THEN Fail(stepsNow, << "pre-existing todos" >>)
    ELSE create_iteration(stepsNow, NewStep("create todos"), 0, FirstObservation(todoCount))

\* complete_todos, lines 238-244
complete_todos_begin(stepsNow) ==
    /\ steps' = stepsNow
    /\ step' = NewStep("complete todos")
    /\ wait_for_begin("wait_for", CompleteTimeout)
    /\ pc' = "complete_todos"
    /\ observed' = FirstObservation(todoCount)
    /\ UNCHANGED << res, completed, len, deletions_remaining, todoCount, pendingAdd,
                    pendingRemove, toggleClicks, destroyClicks, triggers >>

\* delete_todos, lines 289-303
delete_todos_begin(stepsNow) ==
    /\ steps' = stepsNow
    /\ wait_for_begin("wait_for", DestroyConfirmTimeout)
    /\ pc' = "delete_confirm"
    /\ UNCHANGED << res, completed, step, created, len, deletions_remaining, todoCount,
                    pendingAdd, pendingRemove, destroyClicks, triggers, observed >>

\* a test that lets a surplus of destroy buttons pass
UnexpectedCountBelow(length, remaining) == length < remaining

\* delete_todos line 323: list.length() != deletions_remaining
UnexpectedCount(length, remaining) == length # remaining

\* one pass of the 'destroy_todos loop, lines 316-348
delete_iteration(stepsNow, stepNow, remaining) ==
    LET length == todoCount
    IN  IF UnexpectedCount(length, remaining)
        THEN Fail(stepsNow, << "unexpected number of todos", remaining >>)
        ELSE IF length = 0
        THEN Fail(stepsNow, << "no destroy button to click" >>)
        ELSE /\ \E r \in DestroyResponses :
                   /\ todoCount' = todoCount - r.s
                   /\ pendingRemove' = pendingRemove + r.d
             /\ destroyClicks' = destroyClicks + 1
             /\ observed' = Observe(observed, length)
             /\ deletions_remaining' = remaining - 1
             /\ steps' = stepsNow
             /\ step' = stepNow
             /\ wait_for_begin("wait_while", DeleteTimeout)
             /\ pc' = "delete_todos"
             /\ UNCHANGED << res, completed, created, len, pendingAdd, toggleClicks, triggers >>

\* the tail of delete_todos, lines 356-369, and of execute_bench
delete_todos_end(stepsNow, stepNow) ==
    LET num_destroy_toggles == todoCount
    IN  IF num_destroy_toggles > 0
        THEN Fail(stepsNow, << "there are remaining todos", num_destroy_toggles >>)
        ELSE /\ res' = Ok(Append(stepsNow, Ended(stepNow)))
             /\ completed' = Len(stepsNow) + 1
             /\ pc' = "bench_done"
             /\ LocalsDropped
             /\ EngineDropped
             /\ PageUntouched

\* a view message that never reports the runner idle again
StepDisabledStuck(b) == "StepDisabled(true)"

\* ViewMsg::StepDisabled, broadcast to the view around a run
StepDisabled(b) == IF b THEN "StepDisabled(true)" ELSE "StepDisabled(false)"

\* ViewMsg::IframeSrc, the entry point handed to the view
IframeSrc == "IframeSrc"

\* BenchRunnerFacade::run up to its wait for the reply
FacadeRun(fw) ==
    /\ runs < MaxRuns
    /\ Len(rx_logic) < LogicCapacity
    /\ runs' = runs + 1
    /\ rx_logic' = Append(rx_logic, [framework |-> fw, reply |-> runs + 1])
    /\ UNCHANGED << now, pc, engineVars, targetVars, framework, reply, benchmark,
                    steps, step, bench_start, res, completed, created, len,
                    deletions_remaining, viewLog, delivered >>
    /\ UNCHANGED << schedulerVars, uncaught, dispatched, gone >>

\* BenchRunnerFacade::run called by one more caller, while earlier requests
\* may be queued, running or answered
FacadeRunAgain(fw) ==
    /\ runs >= 1
    /\ runs < MaxRuns + 1
    /\ Len(rx_logic) < LogicCapacity
    /\ runs' = runs + 1
    /\ rx_logic' = Append(rx_logic, [framework |-> fw, reply |-> runs + 1])
    /\ UNCHANGED << now, pc, engineVars, targetVars, framework, reply, benchmark,
                    steps, step, bench_start, res, completed, created, len,
                    deletions_remaining, viewLog, delivered >>
    /\ UNCHANGED << schedulerVars, uncaught, dispatched, gone >>

\* BenchRunnerFacade::run: rx.next() yields the Benchmark
CallerReceive ==
    /\ \E m \in delivered : delivered' = delivered \ {m}
    /\ UNCHANGED << now, pc, engineVars, targetVars, rx_logic, runs, framework,
                    reply, benchmark, steps, step, bench_start, res, completed, created, len,
                    deletions_remaining, viewLog >>
    /\ UNCHANGED << schedulerVars, uncaught, dispatched, gone >>

\* a runner that takes the next request while a page is loading
AwaitsRequestWhileLoading == pc \in {"recv", "load_step"}

\* the loop of bench_runner_logic is at rx_logic.next()
AwaitsRequest == pc = "recv"

\* bench_runner_logic, lines 442-451
RunnerRecv ==
    /\ AwaitsRequest
    /\ rx_logic # << >>
    /\ framework' = Head(rx_logic).framework
    /\ reply' = Head(rx_logic).reply
    /\ rx_logic' = Tail(rx_logic)
    /\ benchmark' = [NewBenchmark EXCEPT !.name = Head(rx_logic).framework.name,
                                         !.language = Head(rx_logic).framework.language]
    /\ viewLog' = << StepDisabled(TRUE) >>
    /\ pc' = "execute_bench"
    /\ UNCHANGED << now, engineVars, targetVars, runs, steps, step, bench_start,
                    res, completed, created, len, deletions_remaining, delivered >>
    /\ UNCHANGED << schedulerVars, uncaught, dispatched, gone >>

\* a load_step that sends the source before it makes its stream of loads
ListensAfterSource == FALSE

\* load_step lines 89-95 run before the broadcast of line 103: the listener
\* of the stream is in place when the view is given the source
ListensBeforeSource == TRUE

\* execute_bench lines 378-387 and load_step lines 89-103: the listener is
\* registered, then the source is sent to the view; the page starts over
ExecuteBenchBegin ==
    /\ pc = "execute_bench"
    /\ steps' = << >>
    /\ bench_start' = now
    /\ listening' = ListensBeforeSource
    /\ loads' = 0
    /\ step' = [name |-> "initial load", start |-> 0, end |-> None]
    /\ viewLog' = Append(viewLog, IframeSrc)
    /\ willLoad' \in BOOLEAN
    /\ todoInput' = {}
    /\ todoCount' = 0
    /\ pendingAdd' = 0
    /\ pendingRemove' = 0
    /\ toggleClicks' = 0
    /\ destroyClicks' = 0
    /\ triggers' = 0
    /\ observed' = FirstObservation(0)
    /\ res' = None
    /\ completed' = 0
    /\ created' = 0
    /\ len' = 0
    /\ deletions_remaining' = 0
    /\ pc' = "load_step"
    /\ UNCHANGED << now, engineVars, rx_logic, runs, framework, reply, benchmark,
                    delivered >>
    /\ UNCHANGED << schedulerVars, uncaught, dispatched, gone >>

\* the page finishes loading: the iframe emits "load", which the stream
\* buffers if its listener is registered; todos persisted by an earlier visit
\* may be there, the input may or may not be rendered yet
TargetLoaded ==
    /\ pc = "load_step"
    /\ willLoad
    /\ loads = 0
    /\ delivered = {}
    /\ loads' = IF listening THEN loads + 1 ELSE loads
    /\ todoInput' \in SUBSET Selectors
    /\ todoCount' \in 0..1
    /\ UNCHANGED << now, pc, engineVars, runnerVars, listening, willLoad, pendingAdd,
                    pendingRemove, toggleClicks, destroyClicks, triggers, observed >>
    /\ UNCHANGED << schedulerVars, uncaught, dispatched, gone >>

\* the page renders its input after the load event
TargetRender ==
    /\ pc = "find_todo_input"
    /\ PageMayRun
    /\ \E sel \in Selectors \ todoInput : todoInput' = todoInput \cup {sel}
    /\ UNCHANGED << now, pc, engineVars, runnerVars, loads, listening, willLoad,
                    todoCount, pendingAdd, pendingRemove, toggleClicks, destroyClicks,
                    triggers, observed >>
    /\ UNCHANGED << schedulerVars, uncaught, dispatched, gone >>

\* the page adds an item it had deferred
TargetApplyAdd ==
    /\ PageMayRun
    /\ pendingAdd > 0
    /\ pendingAdd' = pendingAdd - 1
    /\ todoCount' = todoCount + 1
    /\ UNCHANGED << now, pc, engineVars, runnerVars, loads, listening, willLoad,
                    todoInput, pendingRemove, toggleClicks, destroyClicks, triggers,
                    observed >>
    /\ UNCHANGED << schedulerVars, uncaught, dispatched, gone >>

\* the page removes an item it had deferred
TargetApplyRemove ==
    /\ PageMayRun
    /\ pendingRemove > 0
    /\ todoCount > 0
    /\ pendingRemove' = pendingRemove - 1
    /\ todoCount' = todoCount - 1
    /\ UNCHANGED << now, pc, engineVars, runnerVars, loads, listening, willLoad,
                    todoInput, pendingAdd, toggleClicks, destroyClicks, triggers,
                    observed >>
    /\ UNCHANGED << schedulerVars, uncaught, dispatched, gone >>

RunnerFrame ==
    UNCHANGED << now, rx_logic, runs, framework, reply, benchmark, bench_start,
                 viewLog, delivered, listening, willLoad >>

\* load_step lines 104-106, then find_todo_input lines 113-121
LoadStepEnd ==
    /\ pc = "load_step"
    /\ loads > 0
    /\ loads' = loads - 1
    /\ steps' = Append(steps, Ended(step))
    /\ step' = NewStep("await todo input")
    /\ wait_for_begin("wait_for", FindInputTimeout)
    /\ pc' = "find_todo_input"
    /\ PageUntouched
    /\ UNCHANGED << res, completed, created, len, deletions_remaining, todoInput >>
    /\ RunnerFrame
    /\ UNCHANGED << schedulerVars, uncaught, dispatched, gone >>

\* the focus step taken for every framework
WaitsForFocusAlways(fw) == TRUE

WaitsForFocus(fw) == fw.wait_for_input_focus

\* wait_todo_focus lines 145-156
wait_todo_focus_begin(stepsNow) ==
    /\ steps' = stepsNow
    /\ step' = NewStep("await todo focus")
    /\ kind' = "wait_until_next_for"
    /\ timeout_seconds' = FocusTimeout
    /\ start' = now
    /\ timer' = Armed
    /\ stream' = << >>
    /\ emitted' = 0
    /\ polls' = 0
    /\ lastPoll' = None
    /\ returns' = 0
    /\ outcome' = NoOutcome
    /\ wstate' = "Polling"
    /\ pc' = "wait_todo_focus"
    /\ PageUntouched
    /\ UNCHANGED << fvals, rx_done, rx_tick, scheduled, woken, res, completed, created, len,
                    deletions_remaining >>

\* find_todo_input lines 138-141, execute_bench lines 402-421
FindTodoInputEnd ==
    /\ pc = "find_todo_input"
    /\ wstate \in {"Ready", "TimedOut"}
    /\ IF wstate = "TimedOut"
       THEN Fail(steps, << "todo input not found" >>)
       ELSE LET stepsNow == Append(steps, Ended(step))
            IN  IF WaitsForFocus(framework)
                THEN wait_todo_focus_begin(stepsNow)
                ELSE create_todos_begin(stepsNow)
    \* the input is not looked up again: its selectors are tracked no further
    /\ todoInput' = {}
    /\ UNCHANGED loads
    /\ RunnerFrame
    /\ UNCHANGED << schedulerVars, uncaught, dispatched, gone >>

\* wait_todo_focus lines 156-160, execute_bench lines 408-421
WaitTodoFocusEnd ==
    /\ pc = "wait_todo_focus"
    /\ wstate \in {"Ready", "TimedOut"}
    /\ IF wstate = "TimedOut"
       THEN Fail(steps, << "timed out waiting for focus for", outcome.elapsed >>)
       ELSE create_todos_begin(Append(steps, Ended(step)))
    /\ UNCHANGED << loads, todoInput >>
    /\ RunnerFrame
    /\ UNCHANGED << schedulerVars, uncaught, dispatched, gone >>

\* a loop that goes on to the next item whatever the wait returned
CreateTodosResumeAnyway ==
    /\ pc = "create_todos"
    /\ wstate \in {"Ready", "TimedOut"}
    /\ IF created + 1 < TodoCount
       THEN create_iteration(steps, step, created + 1, observed)
       ELSE /\ created' = created + 1
            /\ complete_todos_begin(Append(steps, Ended(step)))
    /\ UNCHANGED << loads, todoInput >>
    /\ RunnerFrame
    /\ UNCHANGED << schedulerVars, uncaught, dispatched, gone >>

\* create_todos lines 226-231, execute_bench line 425
CreateTodosResume ==
    /\ pc = "create_todos"
    /\ wstate \in {"Ready", "TimedOut"}
    /\ IF wstate = "TimedOut"
       THEN Fail(steps, << "timed out waiting for todo creation for", outcome.elapsed >>)
       ELSE IF created + 1 < TodoCount
            THEN create_iteration(steps, step, created + 1, observed)
            ELSE /\ created' = created + 1
                 /\ complete_todos_begin(Append(steps, Ended(step)))
    /\ UNCHANGED << loads, todoInput >>
    /\ RunnerFrame
    /\ UNCHANGED << schedulerVars, uncaught, dispatched, gone >>

\* complete_todos lines 269-279, execute_bench line 429
CompleteTodosResume ==
    /\ pc = "complete_todos"
    /\ wstate \in {"Ready", "TimedOut"}
    /\ IF wstate = "TimedOut"
       THEN Fail(steps, << "todos could not be found to complete" >>)
       ELSE /\ toggleClicks' = toggleClicks + outcome.found[1]
            /\ delete_todos_begin(Append(steps, Ended(step)))
    /\ UNCHANGED << loads, todoInput >>
    /\ RunnerFrame
    /\ UNCHANGED << schedulerVars, uncaught, dispatched, gone >>

\* delete_todos lines 304-314
DeleteConfirmResume ==
    /\ pc = "delete_confirm"
    /\ wstate \in {"Ready", "TimedOut"}
    /\ IF wstate = "TimedOut"
       THEN Fail(steps, << "could not confirm destroy toggles exist" >>)
       ELSE delete_iteration(steps, NewStep("delete todos"), TodoCount)
    /\ UNCHANGED << loads, todoInput >>
    /\ RunnerFrame
    /\ UNCHANGED << schedulerVars, uncaught, dispatched, gone >>

\* delete_todos lines 349-355
DeleteTodosResume ==
    /\ pc = "delete_todos"
    /\ wstate \in {"Ready", "TimedOut"}
    /\ IF wstate = "TimedOut"
       THEN Fail(steps, << "couldn't confirm todo deleted after", outcome.elapsed >>)
       ELSE IF deletions_remaining = 0
            THEN delete_todos_end(steps, step)
            ELSE delete_iteration(steps, step, deletions_remaining)
    /\ UNCHANGED << loads, todoInput >>
    /\ RunnerFrame
    /\ UNCHANGED << schedulerVars, uncaught, dispatched, gone >>

\* what bench_runner_logic puts into the Benchmark, lines 454-462
Finished(b, r) ==
    IF r[1] = "Ok"
    THEN [b EXCEPT !.steps = b.steps \o r[2]]
    ELSE [b EXCEPT !.failed_message = Some(r[2])]

\* a loop that unwraps the result of reply.broadcast
AfterReplyUnwrapped(sent) == IF sent THEN "recv" ELSE "stopped"

\* bench_runner_logic lines 465-470: an Err of reply.broadcast is logged and
\* the loop goes on to rx_logic.next()
AfterReply(sent) == "recv"

\* bench_runner_logic lines 454-471: reply.broadcast fails when the caller has
\* dropped its receiver
BenchCompleted ==
    /\ pc = "bench_done"
    /\ benchmark' = Finished(benchmark, res)
    /\ viewLog' = Append(viewLog, StepDisabled(FALSE))
    /\ delivered' = IF reply \in gone
                    THEN delivered
                    ELSE delivered \cup {[reply |-> reply, benchmark |-> benchmark']}
    /\ pc' = AfterReply(reply \notin gone)
    /\ UNCHANGED << now, engineVars, targetVars, rx_logic, runs, framework, reply,
                    steps, step, bench_start, res, completed, created, len, deletions_remaining >>
    /\ UNCHANGED << schedulerVars, uncaught, dispatched, gone >>

Init ==
    /\ now = 0
    /\ pc = "recv"
    /\ kind = "wait_for"
    /\ timeout_seconds = 0
    /\ fvals = [i \in ElapsedSlots |-> FALSE]
    /\ EngineIdle
    /\ RunnerIdle
    /\ TargetBlank
    /\ AppIdle

Next ==
    \/ \E fw \in Frameworks : FacadeRun(fw)
    \/ CallerReceive
    \/ RunnerRecv
    \/ ExecuteBenchBegin
    \/ TargetLoaded
    \/ TargetRender
    \/ TargetApplyAdd
    \/ TargetApplyRemove
    \/ LoadStepEnd
    \/ FindTodoInputEnd
    \/ StreamEvent
    \/ TimerFire
    \/ WaitUntilNextForResume
    \/ WaitTodoFocusEnd
    \/ ImmediateCallback
    \/ WaitForResume
    \/ CreateTodosResume
    \/ CompleteTodosResume
    \/ DeleteConfirmResume
    \/ DeleteTodosResume
    \/ BenchCompleted
    \/ ClockTick

Spec == Init /\ [][Next]_vars

\* the runner with callers that do not wait for one another
QueueNext ==
    \/ Next
    \/ \E fw \in Frameworks : FacadeRunAgain(fw)

QueueSpec == Init /\ [][QueueNext]_vars

\* the caller of the run in progress drops the future of run, and with it
\* the receiver of its reply channel.  The runner looks at the channel only
\* in reply.broadcast, so a drop at any time of the run is the same to it as
\* a drop just before that call.
CallerGone ==
    /\ pc = "bench_done"
    /\ reply \notin gone
    /\ gone' = gone \cup {reply}
    /\ UNCHANGED << now, pc, engineVars, runnerVars, targetVars, uncaught, dispatched,
                    schedulerVars >>

GoneNext ==
    \/ QueueNext
    \/ CallerGone

GoneSpec == Init /\ [][GoneNext]_vars

\* the executor resumes woken tasks, the scheduler runs its callbacks and
\* timers, callers take their replies and time passes; a page that will load
\* does fire its load event, and owes nothing else
RunnerFair ==
    /\ WF_vars(RunnerRecv)
    /\ WF_vars(ExecuteBenchBegin)
    /\ WF_vars(LoadStepEnd)
    /\ WF_vars(FindTodoInputEnd)
    /\ WF_vars(WaitTodoFocusEnd)
    /\ WF_vars(CreateTodosResume)
    /\ WF_vars(CompleteTodosResume)
    /\ WF_vars(DeleteConfirmResume)
    /\ WF_vars(DeleteTodosResume)
    /\ WF_vars(BenchCompleted)
    /\ WF_vars(CallerReceive)
    /\ WF_vars(ImmediateCallback)
    /\ WF_vars(WaitForResume)
    /\ WF_vars(TimerFire)
    /\ WF_vars(WaitUntilNextForResume)
    /\ WF_vars(ClockTick)
    /\ WF_vars(TargetLoaded)

FairSpec == Spec /\ RunnerFair

QueueFairSpec == QueueSpec /\ RunnerFair

WaitFair ==
    /\ WF_vars(ClockTick)
    /\ WF_vars(ImmediateCallback)
    /\ WF_vars(WaitForResume)
    /\ WF_vars(FoundFuturePoll)
    /\ WF_vars(FoundFutureWake)

WaitSpecFair == WaitSpec /\ WaitFair

\* ------------------------------------------ the App of bin/src/lib.rs
\* The App, its cards, the messages in flight and the view, taken together:
\* the handlers below are functions from one such world to the next.
World == [app |-> app, cards |-> cards, futures |-> futures, view |-> view]

BenchStep(k, fw) == [kind |-> k, framework |-> fw]

\* BenchStep::steps_from_card
steps_from_card(card) ==
    << BenchStep("Load", Some(card.name)),
       BenchStep("AwaitTodoInput", None),
       BenchStep("EnterTodos", None),
       BenchStep("CompleteTodos", None),
       BenchStep("DeleteTodos", None),
       BenchStep("PushBenchmark", Some(card.name)) >>

\* BenchStep::to_step_string, by the kind of the step
to_step_string(st) == st.kind

\* an .expect() or unwrap that fails: the handler stops there
Panic(w, msg) == [w EXCEPT !.app.panicked = Some(msg)]

\* sub.send_async
SendAsync(w, k) == [w EXCEPT !.futures[k] = @ + 1]

Min(S) == CHOOSE x \in S : \A y \in S : x <= y

\* a search for the next card that takes disabled cards as well
get_next_steps_any(w) ==
    LET start_ndx == IF w.app.framework_index = None THEN 0
                     ELSE w.app.framework_index[1] + 1
        n == Len(w.cards)
    IN  IF start_ndx < n
        THEN [w EXCEPT !.app.framework_index = Some(start_ndx),
                       !.app.steps = steps_from_card(w.cards[start_ndx + 1])]
        ELSE [w EXCEPT !.app.framework_index = Some(start_ndx),
                       !.app.steps = << >>]

\* App::get_next_steps: indices are 0-based as in the source
get_next_steps(w) ==
    LET start_ndx == IF w.app.framework_index = None THEN 0
                     ELSE w.app.framework_index[1] + 1
        n == Len(w.cards)
        enabled == {i \in start_ndx..(n - 1) : w.cards[i + 1].is_enabled}
    IN  IF enabled # {}
        THEN [w EXCEPT !.app.framework_index = Some(Min(enabled)),
                       !.app.steps = steps_from_card(w.cards[Min(enabled) + 1])]
        ELSE [w EXCEPT !.app.framework_index =
                            Some(IF start_ndx < n THEN n - 1 ELSE start_ndx),
                       !.app.steps = << >>]

\* App::send_next_step
send_next_step(w) ==
    [w EXCEPT !.view.next_step =
        IF w.app.steps # << >> THEN to_step_string(Head(w.app.steps)) ELSE "..."]

\* App::push_benchmark
push_benchmark(w, fw) ==
    [w EXCEPT !.app.benchmarks =
                  Append(@, [name |-> fw,
                             failed_message |-> w.app.current_benchmark.failed_message]),
              !.app.current_benchmark = NewCurrentBenchmark]

\* card.update(ChangeState(st)) on the card at position i (1-based)
ChangeState(w, i, st) == [w EXCEPT !.cards[i].state = st]

\* the body of start_step for a step that waits on the page
StartWaitingStep(w, st) ==
    IF st.kind \in {"AwaitTodoInput"} /\ w.app.iframe_document = None
    THEN Panic(w, "no iframe document")
    ELSE IF st.kind = "EnterTodos" /\ w.app.may_todo_input = None
    THEN Panic(w, "no todo input")
    ELSE IF w.app.iframe_document = None
    THEN Panic(w, "can't get iframe document")
    ELSE IF st.kind = "EnterTodos" /\ w.app.framework_index = None
    THEN Panic(w, "no framework index")
    ELSE [SendAsync(w, st.kind) EXCEPT !.app.may_current_step = Some(st)]

\* App::start_step, lines 266-471
start_step(w, st) ==
    LET w1 == [w EXCEPT !.view.step_disabled = TRUE]
    IN  CASE st.kind = "Load" ->
                [w1 EXCEPT !.view.iframe_src = st.framework,
                           !.view.loading = TRUE,
                           !.app.current_benchmark.name = st.framework,
                           !.app.may_current_step = Some(st)]
          [] st.kind = "PushBenchmark" ->
                LET w2 == push_benchmark(w1, st.framework[1])
                IN  IF w2.app.framework_index = None
                    THEN Panic(w2, "no framework index")
                    ELSE IF w2.app.framework_index[1] >= Len(w2.cards)
                    THEN Panic(w2, "no framework card")
                    ELSE [SendAsync(ChangeState(w2, w2.app.framework_index[1] + 1,
                                                << "Done" >>), "CompleteStep")
                            EXCEPT !.app.may_current_step = Some(st)]
          [] OTHER -> StartWaitingStep(w1, st)

\* App::step, lines 228-246
step_of_app(w) ==
    LET w1 == IF w.app.framework_index = None THEN get_next_steps(w) ELSE w
    IN  IF w1.app.steps # << >>
        THEN LET w2 == start_step([w1 EXCEPT !.app.steps = Tail(@)], Head(w1.app.steps))
             IN  IF w2.app.panicked # None THEN w2 ELSE send_next_step(w2)
        ELSE w1

\* App::complete_current_step, lines 483-511
complete_current_step(w) ==
    IF w.app.may_current_step = None
    THEN Panic(w, "no current step")
    ELSE LET w1 == [w EXCEPT !.app.may_current_step = None]
             w2 == IF w1.app.steps = << >> THEN get_next_steps(w1) ELSE w1
             w3 == IF w1.app.steps = << >> /\ w2.app.steps = << >>
                   THEN [w2 EXCEPT !.app.framework_index = None,
                                   !.app.is_stepping = TRUE]
                   ELSE w2
             w4 == [send_next_step(w3) EXCEPT !.view.step_disabled = FALSE]
         IN  IF ~w4.app.is_stepping THEN SendAsync(w4, "NextStep") ELSE w4

\* the first card with the name, 0 when there is none
CardNamed(cs, fw) ==
    IF \E i \in 1..Len(cs) : cs[i].name = fw
    THEN Min({i \in 1..Len(cs) : cs[i].name = fw})
    ELSE 0

\* a failure that leaves the queued steps of the target in place
fail_keeps_steps(w, msg) ==
    IF w.app.current_benchmark.name = None
    THEN Panic(w, "could not get framework name")
    ELSE LET fw == w.app.current_benchmark.name[1]
             w1 == [w EXCEPT !.app.current_benchmark =
                                  [name |-> None, failed_message |-> Some(msg)]]
             i == CardNamed(w1.cards, fw)
             w2 == IF i = 0 THEN w1 ELSE ChangeState(w1, i, << "Erred", msg >>)
             w3 == push_benchmark(w2, fw)
         IN  complete_current_step(w3)

\* App::fail, lines 513-537
fail(w, msg) ==
    IF w.app.current_benchmark.name = None
    THEN Panic(w, "could not get framework name")
    ELSE LET fw == w.app.current_benchmark.name[1]
             w1 == [w EXCEPT !.app.current_benchmark =
                                  [name |-> None, failed_message |-> Some(msg)]]
             i == CardNamed(w1.cards, fw)
             w2 == IF i = 0 THEN w1 ELSE ChangeState(w1, i, << "Erred", msg >>)
             w3 == push_benchmark(w2, fw)
             w4 == [w3 EXCEPT !.app.steps = << >>]
         IN  complete_current_step(w4)

\* the message a step's future resolves to when its wait found nothing
FailureMessage(k) ==
    CASE k = "AwaitTodoInput" -> "todo input not found!"
      [] k = "EnterTodos" -> "todos could not be created"
      [] k = "CompleteTodos" -> "todos could not be completed"
      [] k = "DeleteTodos" -> "todos could not be deleted"

\* App::update, lines 588-662, for the messages that come from send_async
update_async(w, k, found) ==
    CASE k = "NextStep" -> step_of_app(w)
      [] k = "CompleteStep" -> complete_current_step(w)
      [] k = "AwaitTodoInput" /\ found ->
            complete_current_step([w EXCEPT !.app.may_todo_input = w.app.iframe_document])
      [] k \in {"EnterTodos", "CompleteTodos", "DeleteTodos"} /\ found ->
            complete_current_step(w)
      [] OTHER -> fail(w, FailureMessage(k))

\* the world after a handler becomes the state
Becomes(w) ==
    /\ app' = w.app
    /\ cards' = w.cards
    /\ futures' = w.futures
    /\ view' = w.view

\* a panic inside update leaves the component borrowed: no message is handled
\* after it
Alive == app.panicked = None

\* In::ClickedRun: the Run button is never disabled
ClickedRun ==
    /\ Alive
    /\ clicks < MaxClicks
    /\ clicks' = clicks + 1
    /\ Becomes(step_of_app([World EXCEPT !.app.is_stepping = FALSE]))
    /\ UNCHANGED << benchVars, suite >>

\* In::ClickedStep: the Step button bears the disabled attribute while
\* StepDisabled(true) is the latest
ClickedStep ==
    /\ Alive
    /\ ~view.step_disabled
    /\ clicks < MaxClicks
    /\ clicks' = clicks + 1
    /\ Becomes(step_of_app([World EXCEPT !.app.is_stepping = TRUE]))
    /\ UNCHANGED << benchVars, suite >>

\* the iframe fires load: once when the view is built, and after each
\* IframeSrc if the page loads
IframeLoaded ==
    /\ Alive
    /\ view.loading
    /\ LET w == [World EXCEPT !.view.loading = FALSE]
           doc == IF view.iframe_src = None THEN Some(0) ELSE view.iframe_src
       IN  Becomes(IF app.may_current_step # None
                   THEN complete_current_step([w EXCEPT !.app.iframe_document = doc])
                   ELSE w)
    /\ UNCHANGED << benchVars, clicks, suite >>

\* a message given to send_async arrives: the future of a waiting step
\* resolves found or not, as the page decides
Deliver(k, found) ==
    /\ Alive
    /\ futures[k] > 0
    /\ Becomes(update_async([World EXCEPT !.futures[k] = @ - 1], k, found))
    /\ UNCHANGED << benchVars, clicks, suite >>

DeliverStepMessage == \E k \in {"NextStep", "CompleteStep"} : Deliver(k, TRUE)

StepFutureFound ==
    \E k \in FutureKinds \ {"NextStep", "CompleteStep"} : Deliver(k, TRUE)

StepFutureNotFound ==
    \E k \in FutureKinds \ {"NextStep", "CompleteStep"} : Deliver(k, FALSE)

AppInit ==
    /\ now = 0
    /\ pc = "app"
    /\ kind = "wait_for"
    /\ timeout_seconds = 0
    /\ fvals = [i \in ElapsedSlots |-> FALSE]
    /\ EngineIdle
    /\ RunnerIdle
    /\ TargetBlank
    /\ suite = NewSuite
    /\ app = NewApp
    /\ \E n \in 1..MaxCards :
          cards \in {[i \in 1..n |-> NewCard(i, e[i])] : e \in [1..n -> BOOLEAN]}
    /\ futures = [k \in FutureKinds |-> 0]
    /\ view = NewView
    /\ clicks = 0

AppNext ==
    \/ ClickedRun
    \/ ClickedStep
    \/ IframeLoaded
    \/ DeliverStepMessage
    \/ StepFutureFound
    \/ StepFutureNotFound

AppSpec == AppInit /\ [][AppNext]_vars

\* the executor delivers what send_async was given, and every wait of a step
\* ends, found or timed out
AppFair ==
    /\ WF_vars(DeliverStepMessage)
    /\ WF_vars(StepFutureFound \/ StepFutureNotFound)

AppFairSpec == AppSpec /\ AppFair

\* ------------------------------------------ the Suite Scheduler (spec 4.4)
\* a filter that lets every target through
AllTargets(cs) == 1..Len(cs)

\* positions of the enabled targets
EnabledTargets(cs) == {i \in 1..Len(cs) : cs[i].is_enabled}

\* the orderings of a set of targets: what a shuffle can produce
Shuffles(S) ==
    {p \in [1..Cardinality(S) -> S] : \A i, j \in 1..Cardinality(S) : p[i] = p[j] => i = j}

\* n replicas of the filtered list, each shuffled independently, concatenated
RECURSIVE RunQueues(_, _)
RunQueues(S, n) ==
    IF n = 0 THEN {<< >>}
    ELSE {p \o q : p \in Shuffles(S), q \in RunQueues(S, n - 1)}

\* all targets marked "ready"
MarkedReady(cs) == [i \in 1..Len(cs) |-> [cs[i] EXCEPT !.state = << "Ready" >>]]

\* a marking that calls every finished run done
MarkDoneAlways(b) == << "Done" >>

\* "done" or "erred" by the result of the run
MarkFinished(b) ==
    IF b.failed_message = None THEN << "Done" >> ELSE << "Erred", b.failed_message[1] >>

\* "run suite"
RunSuite ==
    /\ suite.phase = "idle"
    /\ \E n \in 1..MaxAvgTimes :
        \E q \in RunQueues(EnabledTargets(cards), n) :
            suite' = [suite EXCEPT !.phase = "between", !.avg_times = n, !.queue = q,
                                   !.aggregate = << >>, !.cancel = FALSE,
                                   !.current = 0, !.ended = "never"]
    /\ cards' = MarkedReady(cards)
    /\ UNCHANGED << benchVars, app, futures, view, clicks >>

\* the external cancellation signal
RequestCancel ==
    /\ suite.phase # "idle"
    /\ ~suite.cancel
    /\ suite' = [suite EXCEPT !.cancel = TRUE]
    /\ UNCHANGED << benchVars, app, cards, futures, view, clicks >>

\* between two runs: cancellation is looked at, then the next target is popped
\* and marked "running", or the aggregate list is handed over
NextTarget ==
    /\ suite.phase = "between"
    /\ IF suite.cancel
       THEN /\ suite' = [suite EXCEPT !.phase = "idle", !.queue = << >>,
                                      !.ended = "cancelled"]
            /\ cards' = cards
       ELSE IF suite.queue = << >>
       THEN /\ suite' = [suite EXCEPT !.phase = "idle", !.ended = "exhausted"]
            /\ cards' = cards
       ELSE /\ suite' = [suite EXCEPT !.phase = "running", !.queue = Tail(@),
                                      !.current = Head(suite.queue)]
            /\ cards' = [cards EXCEPT ![Head(suite.queue)].state = << "Running" >>]
    /\ UNCHANGED << benchVars, app, futures, view, clicks >>

\* a run that is given up, without a Benchmark, once cancellation is requested
RunDroppedOnCancel ==
    /\ suite.phase = "running"
    /\ LET b == [name |-> cards[suite.current].name,
                 failed_message |-> IF suite.current \in suite.failing
                                    THEN Some("failed") ELSE None]
       IN  /\ suite' = [suite EXCEPT !.phase = "between",
                                     !.aggregate = IF suite.cancel THEN @ ELSE Append(@, b),
                                     !.current = 0]
           /\ cards' = [cards EXCEPT ![suite.current].state =
                            IF suite.cancel THEN << "Ready" >> ELSE MarkFinished(b)]
    /\ UNCHANGED << benchVars, app, futures, view, clicks >>

\* BenchRunnerFacade::run returns the Benchmark of the run: it has no other
\* way out, whatever was requested meanwhile
RunReturns ==
    /\ suite.phase = "running"
    /\ LET b == [name |-> cards[suite.current].name,
                 failed_message |-> IF suite.current \in suite.failing
                                    THEN Some("failed") ELSE None]
       IN  /\ suite' = [suite EXCEPT !.phase = "between",
                                     !.aggregate = Append(@, b),
                                     !.current = 0]
           /\ cards' = [cards EXCEPT ![suite.current].state = MarkFinished(b)]
    /\ UNCHANGED << benchVars, app, futures, view, clicks >>

SuiteInit ==
    /\ now = 0
    /\ pc = "suite"
    /\ kind = "wait_for"
    /\ timeout_seconds = 0
    /\ fvals = [i \in ElapsedSlots |-> FALSE]
    /\ EngineIdle
    /\ RunnerIdle
    /\ TargetBlank
    /\ app = NewApp
    /\ futures = [k \in FutureKinds |-> 0]
    /\ view = NewView
    /\ clicks = 0
    /\ \E n \in 1..MaxTargets :
          /\ cards \in {[i \in 1..n |-> NewCard(i, e[i])] : e \in [1..n -> BOOLEAN]}
          /\ \E bad \in SUBSET (1..n) : suite = [NewSuite EXCEPT !.failing = bad]

SuiteNext ==
    \/ RunSuite
    \/ RequestCancel
    \/ NextTarget
    \/ RunReturns

SuiteSpec == SuiteInit /\ [][SuiteNext]_vars

\* ------------------------------------------------------------ claims
Terminal == wstate \in {"Ready", "TimedOut"}
PollingCall == kind \in {"wait_for", "wait_while"}
NeverYields == \A i \in ElapsedSlots : ~fvals[i]

\* fvals yields nothing before slot t and a value from slot t on
FirstYieldsAt(t) ==
    /\ \A i \in ElapsedSlots : fvals[i] <=> i >= t

\* C1: a wait_for call whose polling function never returns a value ends
\* TimedOut, and no wait_for call reports TimedOut with an elapsed time below
\* its timeout.
C1_TimedOutOnlyAfterTimeout ==
    (kind = "wait_for" /\ Terminal) =>
        /\ NeverYields => wstate = "TimedOut"
        /\ wstate = "TimedOut" => ElapsedAtLeast(outcome.elapsed, timeout_seconds)

\* C2: with timeout > 0 and a polling function that first returns a value at
\* elapsed time t <= timeout and at every later poll, wait_for returns Ready
\* with t <= elapsed <= timeout.
C2_ReadyWithinTimeout ==
    \A t \in ElapsedSlots :
        ( /\ kind = "wait_for"
          /\ Terminal
          /\ timeout_seconds > 0
          /\ FirstYieldsAt(t)
          /\ t * Quantum <= timeout_seconds * MsPerSecond )
        => /\ wstate = "Ready"
           /\ t * Quantum <= outcome.elapsed
           /\ outcome.elapsed <= timeout_seconds * MsPerSecond

\* C9: a call of a wait primitive produces exactly one outcome, Ready or
\* TimedOut; once it has, the polling function is not invoked again, the
\* outcome does not change and neither a callback nor the timer stays armed.
C9_StateOneOutcome ==
    /\ returns <= 1
    /\ Terminal <=> returns = 1
    /\ Terminal => /\ outcome.kind = wstate
                   /\ scheduled = 0
                   /\ timer.st = "unset"
    /\ scheduled <= 1

C9_ExactlyOneOutcome ==
    /\ []C9_StateOneOutcome
    /\ [][Terminal => /\ polls' = polls
                      /\ outcome' = outcome
                      /\ wstate' = wstate
                      /\ returns' = returns]_vars

C9_Witness ==
    /\ Terminal
    /\ returns = 1
    /\ \/ kind = "wait_until_next_for" /\ emitted = MaxEvents
       \/ PollingCall /\ polls = 1 /\ now > start

\* C10: with the scheduler delivering ticks and the clock advancing, every
\* wait_for call reaches Ready or TimedOut, whatever its polling function
\* returns.
C10_WaitForTerminates ==
    (PollingCall /\ wstate = "Polling") ~> (PollingCall /\ Terminal)

C10_Witness ==
    /\ kind = "wait_for"
    /\ Terminal
    /\ ~NeverYields
    /\ ~fvals[0]

\* C11: wait_while(timeout, p) ends as wait_for does on the function that
\* yields exactly when p is false: Ready at the first poll on which p is
\* false, TimedOut only when p has stayed true until the timeout.
C11_WaitWhileAsWaitFor ==
    (kind = "wait_while" /\ Terminal) =>
        /\ wstate = "Ready" => lastPoll = Some(Unit)
        /\ wstate = "TimedOut" =>
                /\ lastPoll = None
                /\ ElapsedAtLeast(outcome.elapsed, timeout_seconds)

PipelineNames(fw) ==
    IF fw.wait_for_input_focus
    THEN << "initial load", "await todo input", "await todo focus",
            "create todos", "complete todos", "delete todos" >>
    ELSE << "initial load", "await todo input",
            "create todos", "complete todos", "delete todos" >>

StepNames(b) == [i \in 1..Len(b.steps) |-> b.steps[i].name]
AllEnded(b) == \A i \in 1..Len(b.steps) : IsSome(b.steps[i].end)

\* the Benchmark of the run that has just finished, on its reply channel
Reported(m) == m \in delivered /\ m.reply = reply /\ pc = "recv"

\* positions of execute_bench at which a step is in progress
StepPcs == {"load_step", "find_todo_input", "wait_todo_focus", "create_todos",
            "complete_todos", "delete_confirm", "delete_todos"}

\* the run has set the input, dispatched a trigger or clicked
TargetActed ==
    \/ triggers' > triggers
    \/ toggleClicks' > toggleClicks
    \/ destroyClicks' > destroyClicks

\* C13: in every run StepDisabled(true) is broadcast before IframeSrc and
\* before any action on the page, StepDisabled(false) after the last action,
\* whether the run succeeded or failed, and each of them once.
C13_StateBusyBracket ==
    /\ pc = "execute_bench" => viewLog = << "StepDisabled(true)" >>
    /\ pc \in StepPcs \cup {"bench_done"} =>
            viewLog = << "StepDisabled(true)", "IframeSrc" >>
    /\ pc = "recv" =>
            viewLog \in { << >>, << "StepDisabled(true)", "IframeSrc", "StepDisabled(false)" >> }
    /\ \A m \in delivered :
            Reported(m) =>
                viewLog = << "StepDisabled(true)", "IframeSrc", "StepDisabled(false)" >>

C14_OneCompletionPerRun ==
    /\ [][\A m \in delivered' \ delivered :
            /\ pc = "bench_done"
            /\ pc' = "recv"
            /\ m.reply = reply
            /\ m.benchmark = Finished(benchmark, res)
            /\ \A o \in delivered : o.reply # m.reply]_vars
    /\ \A id \in 1..MaxRuns :
            (pc = "execute_bench" /\ reply = id) ~> (\E m \in delivered : m.reply = id)

\* the step in which execute_bench calls create_todos
CreateStarts ==
    /\ \/ (pc = "find_todo_input" /\ ~framework.wait_for_input_focus)
       \/ pc = "wait_todo_focus"
    /\ wstate = "Ready"
    /\ pc' # pc

\* C15: when the list already has an item as create_todos starts, the step
\* fails at once with "pre-existing todos": no value is set, no trigger is
\* dispatched, no wait is started and no create step is recorded.
C15_PreExistingFailsAtOnce ==
    /\ [][(CreateStarts /\ todoCount > 0) =>
                /\ res' = Err(<< "pre-existing todos" >>)
                /\ pc' = "bench_done"
                /\ triggers' = 0
                /\ scheduled' = 0
                /\ wstate' = "NotStarted"
                /\ step'.name # "create todos"]_vars
    /\ [](\A m \in delivered :
            (Reported(m) /\ res = Err(<< "pre-existing todos" >>)) =>
                /\ m.benchmark.failed_message = Some(<< "pre-existing todos" >>)
                /\ \A i \in 1..Len(m.benchmark.steps) :
                        m.benchmark.steps[i].name # "create todos"
                /\ triggers = 0
                /\ todoCount > 0)

C15_Witness ==
    /\ \E m \in delivered : Reported(m) /\ res = Err(<< "pre-existing todos" >>)
    /\ framework.wait_for_input_focus
    /\ todoCount > 0

\* C16: when a count read during create_todos exceeds 100, the step aborts
\* with "created too many todos".
C16_TooManyAborts ==
    [][(pc = "create_todos" /\ observed.top > TodoCount /\ pc' # pc) =>
            res' = Err(<< "created too many todos" >>)]_vars

\* C17: complete_todos clicks nothing until a poll has read exactly 100
\* toggles and then clicks each of the 100 once; when its wait ends without
\* that count the step fails and nothing has been clicked.
C17_CompleteClicksExactly ==
    /\ [](toggleClicks \in {0, TodoCount})
    /\ [][toggleClicks' > toggleClicks =>
            /\ pc = "complete_todos"
            /\ wstate = "Ready"
            /\ observed.last = TodoCount
            /\ todoCount = TodoCount
            /\ toggleClicks = 0
            /\ toggleClicks' = TodoCount]_vars
    /\ [][(pc = "complete_todos" /\ wstate = "TimedOut" /\ pc' # pc) =>
            /\ res' = Err(<< "todos could not be found to complete" >>)
            /\ pc' = "bench_done"
            /\ observed.last # TodoCount
            /\ toggleClicks' = 0]_vars

C17_Witness ==
    /\ pc = "bench_done"
    /\ res = Err(<< "todos could not be found to complete" >>)
    /\ observed.last > TodoCount
    /\ toggleClicks = 0

\* what delete_todos does once its wait has ended Ready
DeletePassStarts(expected) ==
    /\ wstate = "Ready"
    /\ wstate' # "Ready"
    /\ expected > 0

\* C18: delete_todos clicks a destroy button only when the number of buttons
\* it reads equals the number still to delete; a different number fails the
\* step with "unexpected number of todos", a deletion that is not confirmed
\* with "couldn't confirm todo deleted after", and no click follows either.
C18_DeleteClicksOnExpectedCount ==
    /\ [][destroyClicks' > destroyClicks =>
            /\ pc \in {"delete_confirm", "delete_todos"}
            /\ todoCount = TodoCount - destroyClicks
            /\ destroyClicks' = destroyClicks + 1
            /\ deletions_remaining' = TodoCount - destroyClicks']_vars
    /\ [][(\/ (pc = "delete_confirm" /\ DeletePassStarts(TodoCount)
                /\ todoCount # TodoCount)
            \/ (pc = "delete_todos" /\ DeletePassStarts(deletions_remaining)
                /\ todoCount # deletions_remaining)) =>
            /\ res'[1] = "Err"
            /\ res'[2][1] = "unexpected number of todos"
            /\ pc' = "bench_done"
            /\ destroyClicks' = destroyClicks]_vars
    /\ [][(pc = "delete_todos" /\ wstate = "TimedOut" /\ wstate' # wstate) =>
            /\ res'[1] = "Err"
            /\ res'[2][1] = "couldn't confirm todo deleted after"
            /\ pc' = "bench_done"
            /\ destroyClicks' = destroyClicks]_vars
    /\ [][(pc \in {"bench_done", "recv"}) => destroyClicks' = destroyClicks]_vars

C18_Witness ==
    /\ pc = "bench_done"
    /\ res[1] = "Err"
    /\ res[2][1] = "couldn't confirm todo deleted after"
    /\ destroyClicks > 1
    /\ todoCount > TodoCount - destroyClicks

\* no wait primitive is in progress
NoWait ==
    /\ wstate = "NotStarted"
    /\ scheduled = 0
    /\ timer.st = "unset"
    /\ rx_done = Pending
    /\ rx_tick = Pending

\* C19: once a step of a run has failed, the run sets no value, dispatches no
\* trigger and clicks nothing more, and neither the failed step nor any wait
\* is run again: a wait that ended TimedOut is the last wait of its run.
C19_NoActionAfterFailure ==
    /\ []((pc \in {"bench_done", "recv"}) => NoWait)
    /\ [][(wstate = "TimedOut" /\ wstate' # wstate) =>
            /\ res'[1] = "Err"
            /\ pc' = "bench_done"
            /\ NoWait'
            /\ UNCHANGED << triggers, toggleClicks, destroyClicks, todoCount >>]_vars
    /\ [][(res # res' /\ res' # None /\ res'[1] = "Err") =>
            /\ pc' = "bench_done"
            /\ UNCHANGED << triggers, toggleClicks, destroyClicks, todoCount >>]_vars
    /\ [][(pc \in {"bench_done", "recv"}) =>
            /\ UNCHANGED << triggers, toggleClicks, destroyClicks, res >>
            /\ pc' \in {"bench_done", "recv", "execute_bench"}]_vars

C19_Witness ==
    /\ pc = "bench_done"
    /\ res[1] = "Err"
    /\ triggers > 1
    /\ toggleClicks = 0
    /\ pendingAdd > 0
    /\ NoWait

\* the current run has broadcast the end of its busy state
RunEnded == viewLog # << >> /\ viewLog[Len(viewLog)] = "StepDisabled(false)"

\* every queued request is later than the run in progress, and every
\* notification not yet taken belongs to an earlier run
OnlyLaterQueued ==
    /\ \A i \in 1..Len(rx_logic) : rx_logic[i].reply > reply
    /\ \A m \in delivered : m.reply < reply

\* C20: at most one run is active: a later Run request is taken from the
\* queue, and its entry point emitted, only after the completion notification
\* of the earlier run was sent, so the actions of two runs never interleave.
C20_OneActiveRun ==
    /\ []((pc # "recv") => (~RunEnded /\ OnlyLaterQueued))
    /\ [][(reply' # reply) =>
            /\ pc = "recv"
            /\ reply' = reply + 1
            /\ reply > 0 => RunEnded
            /\ viewLog' = << "StepDisabled(true)" >>
            /\ UNCHANGED << triggers, toggleClicks, destroyClicks, delivered >>]_vars
    /\ [][(TargetActed \/ (viewLog' # viewLog /\ Len(viewLog') > 1)) =>
            /\ reply' = reply
            /\ rx_logic' = rx_logic
            /\ \A m \in delivered' : m.reply < reply \/ (m.reply = reply /\ RunEnded')]_vars

C20_Witness ==
    /\ pc = "create_todos"
    /\ reply = 1
    /\ Len(rx_logic) = 1
    /\ rx_logic[1].reply = 2
    /\ triggers > 0

\* positions (1-based) of the enabled cards after position i
EnabledAfter(i) == {j \in (i + 1)..Len(cards) : cards[j].is_enabled}

\* the target of the step in progress, as a position in cards (0: none)
CurrentCard ==
    IF app.current_benchmark.name = None THEN 0
    ELSE CardNamed(cards, app.current_benchmark.name[1])

\* the failure was recorded and the next enabled target is queued
Proceeds ==
    /\ app'.panicked = None
    /\ Len(app'.benchmarks) = Len(app.benchmarks) + 1
    /\ app'.benchmarks[Len(app'.benchmarks)].failed_message # None
    /\ EnabledAfter(CurrentCard) # {} =>
            /\ app'.steps = steps_from_card(cards[Min(EnabledAfter(CurrentCard))])
            /\ ~app.is_stepping => futures'["NextStep"] > futures["NextStep"]

\* the steps of the target at position j are queued whole, to be run
QueuedToRun(j) ==
    /\ Alive
    /\ ~app.is_stepping
    /\ j <= Len(cards)
    /\ app.steps = steps_from_card(cards[j])
    /\ futures["NextStep"] > 0

\* the Load step of the target at position j has started
LoadStarted(j) ==
    /\ j <= Len(cards)
    /\ view.iframe_src = Some(cards[j].name)
    /\ app.current_benchmark.name = Some(cards[j].name)

EnabledSet == {i \in 1..Len(cards) : cards[i].is_enabled}

\* q is n consecutive batches, each holding every target of E exactly once
BatchesOf(q, n, E) ==
    /\ Len(q) = n * Cardinality(E)
    /\ \A b \in 0..(n - 1) :
          {q[b * Cardinality(E) + k] : k \in 1..Cardinality(E)} = E

RunningSet == {i \in 1..Len(cards) : cards[i].state = << "Running" >>}

\* a run has just finished: the scheduler is back between two runs
RunFinished == suite.phase = "running" /\ suite'.phase = "between"

FirstTrueAt == Quantum * Min({i \in ElapsedSlots : fvals[i]})

\* C25: when the condition polled by a FoundFuture first holds at time t, with
\* t below the timeout, the future resolves to Some(Found) and the elapsed
\* time it reports is at least t and below the timeout.
C25_FoundWithinTimeout ==
    (/\ kind = "FoundFuture"
     /\ Terminal
     /\ \E i \in ElapsedSlots : fvals[i]
     /\ \A i, j \in ElapsedSlots : (fvals[i] /\ i <= j) => fvals[j]
     /\ FirstTrueAt < timeout_seconds * MsPerSecond)
    => /\ outcome.kind = "Ready"
       /\ FirstTrueAt <= outcome.elapsed
       /\ outcome.elapsed < timeout_seconds * MsPerSecond

\* C26: the value of a successful outcome is the value returned by the
\* invocation of the polling function that ended the wait, which is the first
\* that returned a value: the standalone polling function and the FoundFuture
\* return the number of the invocation, so the value names its poll.
C26_ReadyCarriesEndingValue ==
    /\ []((kind \in {"wait_for", "FoundFuture"} /\ wstate = "Ready") =>
            /\ outcome.found = lastPoll
            /\ outcome.found = Some(polls))
    /\ [][(kind \in {"wait_for", "FoundFuture"} /\ lastPoll # None) =>
            /\ polls' = polls
            /\ lastPoll' = lastPoll]_vars

C26_Witness ==
    /\ kind = "FoundFuture"
    /\ wstate = "Ready"
    /\ polls = 2
    /\ outcome.found = Some(2)
    /\ now > start

\* steps whose future has been handed to send_async and has not resolved
StepsInProgress ==
    futures["AwaitTodoInput"] + futures["EnterTodos"] + futures["CompleteTodos"]
        + futures["DeleteTodos"] + futures["CompleteStep"]

\* a step is taken off the queue of steps to be started
StepTaken == Len(app'.steps) < Len(app.steps) /\ app'.steps # << >>

\* C27: while a step is in progress, with the busy flag set, a Run click, a
\* Step click or a NextStep starts no other step: at most one step is in
\* progress at any time.
C27_OneStepInProgress ==
    /\ [](StepsInProgress <= 1)
    /\ [][view.step_disabled => ~StepTaken]_vars

\* C28: when the polling function raises an error during a poll, the caller of
\* wait_for receives it and the wait is over at once: the function is not
\* polled again and no Ready or TimedOut outcome follows.
C28_PanicReachesCaller ==
    /\ [][uncaught' > uncaught => wstate' \notin {"Polling", "Ready", "TimedOut"}]_vars
    /\ [][uncaught > 0 => polls' = polls /\ outcome' = outcome]_vars

\* C29: the polling function is invoked once per scheduler tick, at most one
\* poll callback is outstanding at any time, and every invocation but the
\* first of a FoundFuture runs on a tick that consumes the outstanding callback.
C29_OneInvocationPerTick ==
    /\ [](scheduled <= 1)
    /\ [][polls' # polls =>
            /\ polls' = polls + 1
            /\ kind = "FoundFuture" => polls = 0 \/ woken
            /\ kind # "FoundFuture" => scheduled = 1 /\ scheduled' = 0]_vars
    /\ [][(scheduled' < scheduled /\ kind # "FoundFuture") => polls' = polls + 1]_vars
    /\ [][(woken' /\ ~woken) => scheduled = 1 /\ scheduled' = 0]_vars

\* a second invocation has run after a tick and left one callback outstanding
C29_Witness ==
    /\ kind = "FoundFuture"
    /\ polls = MaxPolls
    /\ scheduled = 1
    /\ wstate = "Polling"

\* the wait of the current iteration of create_todos ended without its item
CreationUnconfirmed == pc = "create_todos" /\ wstate = "TimedOut"

\* C30: in create_todos a trigger after the first is dispatched only once the
\* wait of the previous one has read the count before it plus one; when that
\* wait ends without it the step fails and no further trigger is dispatched.
C30_TriggerAfterConfirmation ==
    /\ [][triggers' > triggers =>
            /\ triggers' = triggers + 1
            /\ \/ triggers = 0 /\ pc # "create_todos"
               \/ /\ pc = "create_todos"
                  /\ wstate = "Ready"
                  /\ observed.last = len + 1]_vars
    /\ [][CreationUnconfirmed => triggers' = triggers]_vars
    /\ [][(CreationUnconfirmed /\ pc' # pc) =>
            /\ pc' = "bench_done"
            /\ res' = Err(<< "timed out waiting for todo creation for", outcome.elapsed >>)]_vars

\* a second trigger was dispatched after a confirmation, and its own
\* confirmation did not arrive: the run has failed with two triggers in all
C30_Witness ==
    /\ pc = "bench_done"
    /\ triggers = 2
    /\ res # None
    /\ res[1] = "Err"
    /\ res[2][1] = "timed out waiting for todo creation for"

\* C31: delete_todos clicks its first destroy button only after a poll of its
\* first wait has read exactly 100 of them; when no poll reads 100 within 1 s
\* the step fails with "could not confirm destroy toggles exist", without a
\* click.
C31_DeleteStartsAfterConfirmation ==
    /\ [][(pc = "delete_confirm" /\ destroyClicks' > destroyClicks) =>
            /\ wstate = "Ready"
            /\ outcome.found = Some(Some(Unit))]_vars
    /\ [][(pc = "delete_confirm" /\ pc' = "bench_done") =>
            /\ ElapsedAtLeast(now - start, DestroyConfirmTimeout)
            /\ res' = Err(<< "could not confirm destroy toggles exist" >>)
            /\ destroyClicks' = destroyClicks]_vars

\* C32: find_todo_input hands over the element of "#new-todo" whenever one
\* exists at the poll that ends its wait, and the element of ".new-todo" only
\* when no "#new-todo" exists then; it fails only when the polls made found
\* neither.
C32_PrimaryBeforeFallback ==
    /\ (pc = "find_todo_input" /\ wstate = "Ready") =>
            /\ outcome.found = lastPoll
            /\ "#new-todo" \in todoInput => outcome.found = Some("#new-todo")
            /\ "#new-todo" \notin todoInput =>
                    /\ ".new-todo" \in todoInput
                    /\ outcome.found = Some(".new-todo")
    /\ (pc = "find_todo_input" /\ wstate = "TimedOut") =>
            /\ todoInput = {}
            /\ lastPoll = None

\* both selectors match at the poll that ends the wait
C32_Witness ==
    /\ pc = "find_todo_input"
    /\ wstate = "Ready"
    /\ todoInput = {"#new-todo", ".new-todo"}
    /\ outcome.found = Some("#new-todo")

\* the names of the signals of each mode, in order
ExpectedSignals(method, has_form) ==
    CASE method = "Change" -> << "change" >>
      [] method = "InputAndKeypress" -> << "input", "keypress" >>
      [] method = "InputAndKeyup" -> << "input", "keyup" >>
      [] method = "InputAndKeydown" -> << "input", "keydown" >>
      [] method = "Submit" -> IF has_form THEN << "input", "submit" >> ELSE << "input" >>

\* C33: every call of dispatch_events sends the signals of its mode in order:
\* change; input then the Enter keypress, keyup or keydown; input then submit
\* on the enclosing form, and input alone when there is no form.
C33_SignalSequencePerMode ==
    dispatched.method # "none" =>
        LET expected == ExpectedSignals(dispatched.method, dispatched.has_form)
            log == dispatched.log
        IN  /\ Len(log) <= Len(expected)
            /\ dispatched.returned => Len(log) = Len(expected)
            /\ \A i \in 1..Len(log) :
                  /\ log[i].name = expected[i]
                  /\ log[i].from = IF log[i].name = "submit" THEN "form" ELSE "input"
                  /\ (log[i].key = Some("Enter")) <=>
                        log[i].name \in {"keypress", "keyup", "keydown"}

\* a Submit on an input without a form has returned after its one event
C33_Witness ==
    /\ dispatched.method = "Submit"
    /\ ~dispatched.has_form
    /\ dispatched.returned
    /\ Len(dispatched.log) = 1

\* C34: load_step has its load listener registered when it sends the source
\* to the view, so the load event the page fires afterwards is buffered for
\* the step and stays buffered until the step takes it.
C34_LoadEventNeverLost ==
    /\ [](pc = "load_step" =>
            /\ listening
            /\ viewLog[Len(viewLog)] = IframeSrc)
    /\ [][TargetLoaded => loads' = loads + 1]_vars
    /\ [][loads' < loads => pc = "load_step" /\ pc' = "find_todo_input"]_vars

\* the load event fired after the source was sent is waiting for the step
C34_Witness ==
    /\ pc = "load_step"
    /\ viewLog[Len(viewLog)] = IframeSrc
    /\ loads = 1

\* C35: a call of wait_for, wait_while or FoundFuture that has ended has
\* invoked its polling function at least once, whatever its timeout, and a
\* call whose latest poll returned a value has ended Ready with that value,
\* never TimedOut, whatever the time elapsed.
C35_PollBeforeTimeout ==
    (kind # "wait_until_next_for" /\ wstate \in {"Ready", "TimedOut"}) =>
        /\ polls >= 1
        /\ IsSome(lastPoll) => (wstate = "Ready" /\ outcome.found = lastPoll)
        /\ wstate = "TimedOut" => lastPoll = None

\* a wait_for with timeout 0 whose first poll returned a value has ended Ready
C35_Witness ==
    /\ pc = "wait_call"
    /\ kind = "wait_for"
    /\ timeout_seconds = 0
    /\ wstate = "Ready"
    /\ polls = 1
    /\ ElapsedAtLeast(outcome.elapsed, timeout_seconds)

\* C36: when callers invoke BenchRunnerFacade::run without waiting for one
\* another, the runner binds each request's framework to its reply channel,
\* sends on that channel one Benchmark bearing the name and language of that
\* framework, and every caller receives its Benchmark in the end.
C36_EveryCallerGetsItsBenchmark ==
    /\ [][reply' # reply =>
            /\ rx_logic # << >>
            /\ reply' = Head(rx_logic).reply
            /\ framework' = Head(rx_logic).framework]_vars
    /\ [][\A m \in delivered' \ delivered :
            /\ m.reply = reply
            /\ m.benchmark.name = framework.name
            /\ m.benchmark.language = framework.language
            /\ \A o \in delivered : o.reply # m.reply]_vars
    /\ \A id \in 1..(MaxRuns + 1) :
            (runs >= id) ~> (\E m \in delivered : m.reply = id)

\* C37: when the caller of a run has dropped its receiver by the time the run
\* finishes, the runner still broadcasts StepDisabled(false), sends nothing,
\* goes back to waiting for requests and takes the next request as any other.
C37_GoneCallerDoesNotStopRunner ==
    /\ [][(pc = "bench_done" /\ pc' # pc) =>
            /\ pc' = "recv"
            /\ viewLog' = Append(viewLog, StepDisabled(FALSE))
            /\ reply \in gone => delivered' = delivered]_vars
    /\ [][(pc = "recv" /\ pc' # pc) =>
            /\ rx_logic # << >>
            /\ pc' = "execute_bench"
            /\ reply' = Head(rx_logic).reply
            /\ viewLog' = << StepDisabled(TRUE) >>]_vars
    /\ [](pc # "stopped")

\* the first caller was gone and got nothing; the second run was served and
\* its Benchmark sent
C37_Witness ==
    /\ 1 \in gone
    /\ pc = "recv"
    /\ \E m \in delivered : m.reply = 2 /\ m.benchmark.failed_message = None
    /\ \A m \in delivered : m.reply # 1

\* the steps of a Benchmark are ended, each after it started, none before the
\* one before it ended, none before the start of the run
StepsInOrder(ss) ==
    \A i \in 1..Len(ss) :
        /\ IsSome(ss[i].end)
        /\ 0 <= ss[i].start
        /\ ss[i].start <= ss[i].end[1]
        /\ i > 1 => ss[i - 1].end[1] <= ss[i].start

\* C38: in every Benchmark the runner sends, every step has its end set, no
\* earlier than its start, and starts no earlier than the step before it
\* ended; all times are counted from the start of the run and none is negative.
C38_StepTimesInOrder ==
    /\ \A m \in delivered : StepsInOrder(m.benchmark.steps)
    /\ StepsInOrder(steps)

\* a Benchmark of a whole run in which time passed during a step
C38_Witness ==
    \E m \in delivered :
        /\ Len(m.benchmark.steps) >= 5
        /\ \E i \in 1..Len(m.benchmark.steps) :
              m.benchmark.steps[i].start < m.benchmark.steps[i].end[1]
        /\ m.benchmark.steps[Len(m.benchmark.steps)].start > 0

\* the entries the benchmarks list gained in a step of the App
EntriesAdded == Len(app'.benchmarks) - Len(app.benchmarks)

\* the queues of steps fail may leave behind: none, or the whole pipeline of
\* a later card
FreshSteps ==
    {<< >>} \cup {steps_from_card(cards[i]) : i \in 1..Len(cards)}

\* C39: in the step-driven App a handler adds at most one entry to the
\* benchmarks list; an entry is added for the framework whose processing is
\* open (the name Load recorded) and closes it, so that no processing adds
\* two, by PushBenchmark and by fail; and an entry that bears a failure
\* message leaves none of that framework's steps queued or in progress
C39_OneEntryPerFramework ==
    [][/\ EntriesAdded \in {0, 1}
       /\ EntriesAdded = 1 =>
             LET e == app'.benchmarks[Len(app'.benchmarks)]
             IN  /\ app.current_benchmark.name = Some(e.name)
                 /\ app'.current_benchmark.name = None
                 /\ e.failed_message # None =>
                       /\ app'.steps \in FreshSteps
                       /\ app'.may_current_step = None
                       /\ app'.steps # << >> => Head(app'.steps).framework # Some(e.name)]_vars

\* one framework was reported by PushBenchmark and another by fail
C39_Witness ==
    /\ \E i \in 1..Len(app.benchmarks) : app.benchmarks[i].failed_message # None
    /\ \E j \in 1..Len(app.benchmarks) : app.benchmarks[j].failed_message = None

\* C40: in the step-driven App a load event advances the pipeline only when
\* the step in progress is Load; with no step or another step in progress it
\* leaves the current step, the remaining steps and what was recorded for
\* the current benchmark as they were
C40_LoadAdvancesOnlyLoad ==
    [][IframeLoaded =>
          \/ /\ app.may_current_step # None
             /\ app.may_current_step[1].kind = "Load"
          \/ /\ app'.may_current_step = app.may_current_step
             /\ app'.steps = app.steps
             /\ app'.current_benchmark = app.current_benchmark
             /\ app'.panicked = app.panicked]_vars

\* C3: when step k of a run fails, the Benchmark delivered for the run holds
\* the steps 1..k-1, each with its end set and in pipeline order, no later
\* step, and a non-empty failed_message.
C3_FailureKeepsCompletedSteps ==
    \A m \in delivered :
        (Reported(m) /\ res[1] = "Err") =>
            /\ IsSome(m.benchmark.failed_message)
            /\ m.benchmark.failed_message[1] # << >>
            /\ StepNames(m.benchmark) = SubSeq(PipelineNames(framework), 1, completed)
            /\ AllEnded(m.benchmark)

\* C4: when the page never emits "load" after the source has been sent, the
\* load step still ends and the run reaches its completion notification.
C4_LoadStepEndsWithoutLoadEvent ==
    (pc = "load_step" /\ ~willLoad) ~> (pc = "recv")

\* C5: a run whose steps all succeed delivers a Benchmark without
\* failed_message whose steps are the pipeline of its framework, in order,
\* the focus step present exactly when the framework asks for it, each with
\* its end set.
C5_SuccessfulRunSteps ==
    \A m \in delivered :
        (Reported(m) /\ res[1] = "Ok") =>
            /\ m.benchmark.failed_message = None
            /\ StepNames(m.benchmark) = PipelineNames(framework)
            /\ AllEnded(m.benchmark)
            /\ m.benchmark.name = framework.name

C5_Witness ==
    \E m \in delivered :
        /\ Reported(m)
        /\ res[1] = "Ok"
        /\ Len(m.benchmark.steps) = 6
        /\ toggleClicks = TodoCount

\* C6: when the page never shows the input, the wait for it ends at its
\* timeout of 5 s and the Benchmark delivered has failed_message
\* "todo input not found" and exactly one step, the load step.
C6_InputNotFoundKeepsLoadStep ==
    /\ (pc = "find_todo_input" /\ wstate = "TimedOut") =>
            ElapsedAtLeast(outcome.elapsed, FindInputTimeout)
    /\ \A m \in delivered :
        (Reported(m) /\ res = Err(<< "todo input not found" >>)) =>
            /\ m.benchmark.failed_message = Some(<< "todo input not found" >>)
            /\ StepNames(m.benchmark) = << "initial load" >>

\* C7: when create_todos succeeds the page holds exactly 100 items, and the
\* counts the step read never decreased and never exceeded 100.
C7_CreateReachesExactCount ==
    [][(pc = "create_todos" /\ pc' = "complete_todos") =>
            /\ todoCount' = TodoCount
            /\ created' = TodoCount
            /\ triggers' = TodoCount
            /\ observed.mono
            /\ observed.top <= TodoCount
            /\ observed.last = TodoCount]_vars

C7_Witness ==
    /\ pc = "complete_todos"
    /\ polls = 0
    /\ todoCount = TodoCount
    /\ created = TodoCount
    /\ pendingAdd = MaxPending

\* C8: each confirmed deletion cycle reads a count one below the count read
\* at its click, which is the number still to delete, and when delete_todos
\* succeeds no item is left after 100 clicks.
C8_StateCountsDown ==
    pc = "delete_todos" =>
        /\ (wstate = "Polling" /\ polls = 0) =>
                /\ observed.last = deletions_remaining + 1
                /\ destroyClicks = TodoCount - deletions_remaining
        /\ wstate = "Ready" =>
                /\ observed.last = deletions_remaining
                /\ observed.prev = observed.last + 1
                /\ todoCount = observed.last

C8_DeleteDrainsToZero ==
    /\ []C8_StateCountsDown
    /\ [][(pc = "delete_todos" /\ pc' = "bench_done" /\ res'[1] = "Ok") =>
            /\ todoCount' = 0
            /\ destroyClicks' = TodoCount
            /\ observed.last = 0]_vars

C8_Witness ==
    /\ pc = "bench_done"
    /\ res[1] = "Ok"
    /\ todoCount = 0
    /\ destroyClicks = TodoCount

====
